---------------------------- MODULE Spec2Model ----------------------------
(***************************************************************************)
(* The OAuth token lifecycle of plat-wise: Token.IsExpired, the token      *)
(* request of OAuthClient and TokenManager.GetToken, run by several        *)
(* callers on one TokenManager.  TokenManager has no lock, so each caller  *)
(* advances one source statement of GetToken at a time and the statements  *)
(* of different callers interleave.                                        *)
(*                                                                         *)
(* Time is counted in minutes, the lifetime a token response reports       *)
(* (expires_in) in seconds.  A refresh credential is a number, 0 being     *)
(* the empty string; an access credential is the serial number of the      *)
(* token response that carried it (0 for the token given at construction). *)
(*                                                                         *)
(* Specifications: Spec (concurrent callers of GetToken), RotatingSpec     *)
(* (the same against a server that rotates refresh credentials), SeqSpec   *)
(* (one call at a time), ClientSpec (GetClient, one call at a time),       *)
(* GrantSpec (ExchangeCode, RefreshToken and ClientCredentials on every    *)
(* response), AuthURLSpec (AuthURL on configurations and states),          *)
(* RequestSpec (the token request sent, on client credentials), EnvSpec    *)
(* (every operation of one client of either environment), WebSpec (the     *)
(* web dashboard), APISpec (Client.Request on every response),             *)
(* CommandsSpec (GetBalances and GetStatements on every account) and       *)
(* HistorySpec (GetRateHistory on every history of rates).                 *)
(***************************************************************************)
EXTENDS Integers, Sequences, FiniteSets

\* ------------------------------------------------------------------ bounds
MaxTime == 1
MaxIssued == 2

\* The longest redirect URL and the longest scope list tried, beside the
\* named examples.
MaxLen == 2
MaxScopes == 2

\* --------------------------------------------------------------- constants
\* 5 * time.Minute in Token.IsExpired
Buffer == 5

\* time.Minute / time.Second
SecondsPerMinute == 60

\* The goroutines that call GetToken on the one TokenManager.
Callers == {1, 2}

\* The lifetimes (expires_in, in seconds) the token endpoint reports.
Lifetimes == {0, SecondsPerMinute * (Buffer + 1)}

\* A Token is a variable of the program with its field values: id tells
\* which variable it is (0 for the one given at construction, the serial
\* number of the token response for the one tokenRequest declares at line
\* 305), and a *Token points to the variable.
\* The nil *Token.
NilToken == [id |-> -1, access |-> -1, refresh |-> 0, expiresIn |-> 0, expiresAt |-> 0]

\* The Tokens a TokenManager may be constructed with: with or without a
\* refresh credential, the expiry anywhere from the zero instant on.
InitialTokens ==
    { [id |-> 0, access |-> 0, refresh |-> r, expiresIn |-> 0, expiresAt |-> e] :
        r \in {0, 1}, e \in {0, Buffer, Buffer + 1} }

\* The values of onTokenRefresh: nil or a function.
Callbacks == {"nil", "A"}

\* What becomes of one token request: whether http.NewRequestWithContext
\* made the request (made), the error of httpClient.Do (do, "" for none),
\* the error of reading the body (read, "" for none), the status and the
\* body of the response.  A body is the JSON of a token response ("token"), the text the
\* endpoint sends with an error ("error") or something that is not JSON
\* ("garbage").
Answer(status, body) ==
    [made |-> TRUE, do |-> "", read |-> "", status |-> status, body |-> body]
NoAnswer(do) ==
    [made |-> TRUE, do |-> do, read |-> "", status |-> 0, body |-> ""]

\* The errors of httpClient.Do and of reading the body: a failure of the
\* network, and the context of the caller cancelled or past its deadline.
ContextErrors == {"context canceled", "context deadline exceeded"}
DoErrors == {"net"} \cup ContextErrors

\* What the token endpoint and the transport may do with the refresh request
\* of a GetToken call: grant it, refuse it, or not answer.  GetToken treats
\* every error of tokenRequest alike (line 360).
Responses ==
    { Answer(200, "token"), Answer(400, "error"), NoAnswer("net") }

VARIABLES
    authMode,   \* the dashboard's authMode: "oauth" or "token" ("" for no dashboard)
    client,     \* the dashboard's shared client
    browser,    \* what each browser of the dashboard shows
    config,     \* OAuthClient.config
    call,       \* the last call on the OAuthClient itself and what it returned
    now,        \* time.Now()
    token,      \* TokenManager.token
    onTokenRefresh, \* TokenManager.onTokenRefresh
    issued,     \* the number of token responses the endpoint has answered with
    cbLog,      \* the callback invocations so far, in order: function and Token
    unnotified, \* the successful refreshes that found onTokenRefresh nil
    pc,         \* each caller's position in GetToken
    seen,       \* each caller's IsExpired evaluation, while it branches on it
    from,       \* the serial of the Token each caller's call found expired
    req,        \* each caller's refresh request in flight (its refresh_token)
    newToken,   \* each caller's local newToken
    fn,         \* the onTokenRefresh each caller read at line 365
    result      \* what each caller's last GetToken call returned

\* The variables of the web dashboard.
webVars == <<authMode, client, browser>>

vars == <<webVars, config, call, now, token, onTokenRefresh, issued, cbLog, unnotified,
          pc, seen, from, req, newToken, fn, result>>

\* ------------------------------------------------------------ Token.IsExpired
\* time.Time.Add and time.Time.After
Add(t, d) == t + d
After(t, u) == t > u

IsExpired_AtOrAfter(t, at) == Add(at, Buffer) >= t.expiresAt
\* IsExpired that takes a Token with the zero expiry for one that never expires.
IsExpired_ZeroNeverExpires(t, at) ==
    t.expiresAt # 0 /\ After(Add(at, Buffer), t.expiresAt)
IsExpired(t, at) == After(Add(at, Buffer), t.expiresAt)

\* ------------------------------------------------- OAuthClient.tokenRequest
\* time.Duration(n) * time.Second
Seconds(n) == n \div SecondsPerMinute

\* TokenError that keeps the text of the cause and not the cause itself.
TokenError_DropsCause(msg, cause, status, body) ==
    [err |-> msg, cause |-> "", status |-> status, body |-> body, tok |-> NilToken]

\* return nil, fmt.Errorf(msg + ": %w", cause), and the error of line 302
\* with the status and the body in its text
TokenError(msg, cause, status, body) ==
    [err |-> msg, cause |-> cause, status |-> status, body |-> body, tok |-> NilToken]

\* TokenRequest that takes the status 400 for a success.
TokenRequest_Above400(resp, serial, withRefresh, life, at) ==
    IF ~resp.made THEN TokenError("creating request", "nil Context", 0, "")
    ELSE IF resp.do # "" THEN TokenError("executing request", resp.do, 0, "")
    ELSE IF resp.read # "" THEN TokenError("reading response", resp.read, 0, "")
    ELSE IF resp.status > 400
      THEN TokenError("token request failed", "", resp.status, resp.body)
    ELSE IF resp.body # "token"
      THEN TokenError("parsing token response", "json", 0, "")
    ELSE [err |-> "", cause |-> "", status |-> 0, body |-> "",
          tok |-> [id |-> serial, access |-> serial,
                   refresh |-> IF withRefresh THEN serial + 1 ELSE 0,
                   expiresIn |-> life,
                   expiresAt |-> Add(at, Seconds(life))]]

\* The outcome of one token request answered with resp at instant `at`: the
\* error, or the Token parsed from the body, with ExpiresAt = time.Now() +
\* ExpiresIn seconds.  The token response carries the access credential
\* `serial`, a refresh credential if withRefresh, and the lifetime `life`.
TokenRequest(resp, serial, withRefresh, life, at) ==
    IF ~resp.made THEN TokenError("creating request", "nil Context", 0, "")
    ELSE IF resp.do # "" THEN TokenError("executing request", resp.do, 0, "")
    ELSE IF resp.read # "" THEN TokenError("reading response", resp.read, 0, "")
    ELSE IF resp.status >= 400
      THEN TokenError("token request failed", "", resp.status, resp.body)
    ELSE IF resp.body # "token"
      THEN TokenError("parsing token response", "json", 0, "")
    ELSE [err |-> "", cause |-> "", status |-> 0, body |-> "",
          tok |-> [id |-> serial, access |-> serial,
                   refresh |-> IF withRefresh THEN serial + 1 ELSE 0,
                   expiresIn |-> life,
                   expiresAt |-> Add(at, Seconds(life))]]

\* ------------------------------------------------------------------ results
\* What a GetToken call gave its caller: kind "ok" with the *Token, or the
\* error.  A *Token is recorded by the access credential of the Token it
\* points to (-1 for nil).  A caller drops the result of its last call when
\* it calls again.  When the call was made by GetClient, op becomes
\* "GetClient" as GetClient returns, with the *Client in place of the *Token.
NilClient == [apiToken |-> -1, baseURL |-> ""]
NoResult == [op |-> "GetToken", kind |-> "none", tok |-> -1, err |-> "", client |-> NilClient]
Ok(t) == [op |-> "GetToken", kind |-> "ok", tok |-> t.access, err |-> "", client |-> NilClient]
Failed(k, e) == [op |-> "GetToken", kind |-> k, tok |-> -1, err |-> e, client |-> NilClient]

\* No IsExpired evaluation on record.
NoSeen == [exp |-> 0, at |-> 0, ret |-> FALSE, any |-> FALSE]

\* ------------------------------------------------------------ NewTokenManager
\* No call on the OAuthClient itself on record.
NoCall == [op |-> "none"]

\* The configuration of a client of the given environment.
EnvConfig(sandbox) ==
    [Sandbox |-> sandbox, ClientID |-> <<"a">>, ClientSecret |-> <<"s">>,
     RedirectURL |-> <<"a">>, Scopes |-> <<>>]

\* No web dashboard runs.
NoDashboard ==
    /\ authMode = ""
    /\ client = NilClient
    /\ browser = <<>>

\* NewTokenManager(oauth, initialToken)
NewTokenManager ==
    /\ now = 0
    /\ token \in {NilToken} \cup InitialTokens
    /\ onTokenRefresh = "nil"
    /\ issued = 0
    /\ cbLog = <<>>
    /\ unnotified = 0
    /\ pc = [c \in Callers |-> "idle"]
    /\ seen = [c \in Callers |-> NoSeen]
    /\ from = [c \in Callers |-> -1]
    /\ req = [c \in Callers |-> 0]
    /\ newToken = [c \in Callers |-> NilToken]
    /\ fn = [c \in Callers |-> "nil"]
    /\ result = [c \in Callers |-> NoResult]

\* GetToken reads nothing of the configuration: the concurrent callers are
\* run on a production client.
Init ==
    /\ config = EnvConfig(FALSE)
    /\ call = NoCall
    /\ NewTokenManager
    /\ NoDashboard

\* time passes
Tick ==
    /\ now < MaxTime
    /\ now' = now + 1
    /\ UNCHANGED <<webVars, config, call, token, onTokenRefresh, issued, cbLog, unnotified,
                   pc, seen, from, req, newToken, result, fn>>

\* TokenManager.SetRefreshCallback(cb)
SetRefreshCallback(cb) ==
    /\ onTokenRefresh' = cb
    /\ UNCHANGED <<webVars, config, call, now, token, issued, cbLog, unnotified,
                   pc, seen, from, req, newToken, result, fn>>

\* --------------------------------------------------- TokenManager.GetToken
\* CheckNil without the nil test: IsExpired dereferences the nil *Token.
CheckNil_NoGuard(c) ==
    /\ pc[c] = "idle"
    /\ from' = [from EXCEPT ![c] = -1]
    /\ IF token = NilToken
         THEN /\ result' = [result EXCEPT ![c] = Failed("panic", "")]
              /\ UNCHANGED pc
         ELSE /\ pc' = [pc EXCEPT ![c] = "L351"]
              /\ result' = [result EXCEPT ![c] = NoResult]
    /\ UNCHANGED <<webVars, config, call, now, token, onTokenRefresh, issued, cbLog, unnotified, seen, req, newToken, fn>>

\* A caller enters GetToken:
\* if m.token == nil { return nil, "no token available" }
CheckNil(c) ==
    /\ pc[c] = "idle"
    /\ from' = [from EXCEPT ![c] = -1]
    /\ IF token = NilToken
         THEN /\ result' = [result EXCEPT ![c] = Failed("NoTokenAvailable", "")]
              /\ UNCHANGED pc
         ELSE /\ pc' = [pc EXCEPT ![c] = "L351"]
              /\ result' = [result EXCEPT ![c] = NoResult]
    /\ UNCHANGED <<webVars, config, call, now, token, onTokenRefresh, issued, cbLog, unnotified, seen, req, newToken, fn>>

\* CheckExpired that takes every Token for not expired.
CheckExpired_AlwaysFresh(c) ==
    /\ pc[c] = "L351"
    /\ seen' = [seen EXCEPT ![c] =
                  [exp |-> token.expiresAt, at |-> now, ret |-> FALSE, any |-> TRUE]]
    /\ from' = [from EXCEPT ![c] = -1]
    /\ pc' = [pc EXCEPT ![c] = "L352"]
    /\ UNCHANGED <<webVars, config, call, now, token, onTokenRefresh, issued, cbLog, unnotified, req, newToken, result, fn>>

\* if !m.token.IsExpired()
CheckExpired(c) ==
    /\ pc[c] = "L351"
    /\ LET e == IsExpired(token, now) IN
         /\ seen' = [seen EXCEPT ![c] =
                       [exp |-> token.expiresAt, at |-> now, ret |-> e, any |-> TRUE]]
         /\ from' = [from EXCEPT ![c] = IF e THEN token.access ELSE -1]
         /\ pc' = [pc EXCEPT ![c] = IF e THEN "L355" ELSE "L352"]
    /\ UNCHANGED <<webVars, config, call, now, token, onTokenRefresh, issued, cbLog, unnotified, req, newToken, result, fn>>

\* ReturnFresh that also notifies the callback of the Token it returns.
ReturnFresh_Notifies(c) ==
    /\ pc[c] = "L352"
    /\ pc' = [pc EXCEPT ![c] = "idle"]
    /\ seen' = [seen EXCEPT ![c] = NoSeen]
    /\ result' = [result EXCEPT ![c] = Ok(token)]
    /\ cbLog' = IF onTokenRefresh = "nil" THEN cbLog
                ELSE Append(cbLog, [fn |-> onTokenRefresh, tok |-> token.access])
    /\ UNCHANGED <<webVars, config, call, now, token, onTokenRefresh, issued, unnotified, from, req, newToken, fn>>

\* return m.token, nil
ReturnFresh(c) ==
    /\ pc[c] = "L352"
    /\ pc' = [pc EXCEPT ![c] = "idle"]
    /\ seen' = [seen EXCEPT ![c] = NoSeen]
    /\ result' = [result EXCEPT ![c] = Ok(token)]
    /\ UNCHANGED <<webVars, config, call, now, token, onTokenRefresh, issued, cbLog, unnotified, from, req, newToken, fn>>

\* CheckRefreshToken without the test for an empty refresh credential.
CheckRefreshToken_NoGuard(c) ==
    /\ pc[c] = "L355"
    /\ seen' = [seen EXCEPT ![c] = NoSeen]
    /\ pc' = [pc EXCEPT ![c] = "L359"]
    /\ UNCHANGED <<webVars, config, call, now, token, onTokenRefresh, issued, cbLog, unnotified,
                   from, req, newToken, result, fn>>

\* if m.token.RefreshToken == "" {
\*     return nil, "token expired and no refresh token available" }
CheckRefreshToken(c) ==
    /\ pc[c] = "L355"
    /\ seen' = [seen EXCEPT ![c] = NoSeen]
    /\ IF token.refresh = 0
         THEN /\ pc' = [pc EXCEPT ![c] = "idle"]
              /\ result' = [result EXCEPT ![c] = Failed("RefreshUnavailable", "")]
         ELSE /\ pc' = [pc EXCEPT ![c] = "L359"]
              /\ UNCHANGED result
    /\ UNCHANGED <<webVars, config, call, now, token, onTokenRefresh, issued, cbLog, unnotified, from, req, newToken, fn>>

\* m.oauth.RefreshToken(ctx, m.token.RefreshToken): the request goes out
SendRefresh(c) ==
    /\ pc[c] = "L359"
    /\ req' = [req EXCEPT ![c] = token.refresh]
    /\ pc' = [pc EXCEPT ![c] = "wait"]
    /\ UNCHANGED <<webVars, config, call, now, token, onTokenRefresh, issued, cbLog, unnotified,
                   seen, from, newToken, result, fn>>

\* ReceiveRefresh that clears m.token when the refresh fails.
ReceiveRefresh_DropsToken(c, resp, withRefresh, life) ==
    /\ pc[c] = "wait"
    /\ TokenRequest(resp, issued + 1, withRefresh, life, now).err = ""
         => (issued < MaxIssued /\ req[c] # 0)
    /\ req' = [req EXCEPT ![c] = 0]
    /\ LET r == TokenRequest(resp, issued + 1, withRefresh, life, now) IN
         IF r.err # ""
           THEN /\ pc' = [pc EXCEPT ![c] = "idle"]
                /\ result' = [result EXCEPT ![c] = Failed("RefreshFailed", r.err)]
                /\ token' = NilToken
                /\ UNCHANGED <<issued, newToken>>
           ELSE /\ pc' = [pc EXCEPT ![c] = "L364"]
                /\ newToken' = [newToken EXCEPT ![c] = r.tok]
                /\ issued' = issued + 1
                /\ UNCHANGED <<result, token>>
    /\ UNCHANGED <<webVars, config, call, now, onTokenRefresh, cbLog, unnotified, seen, from, fn>>

\* ReceiveRefresh that sends the refresh request again when it failed.
ReceiveRefresh_Retries(c, resp, withRefresh, life) ==
    /\ pc[c] = "wait"
    /\ TokenRequest(resp, issued + 1, withRefresh, life, now).err = ""
         => (issued < MaxIssued /\ req[c] # 0)
    /\ req' = [req EXCEPT ![c] = 0]
    /\ LET r == TokenRequest(resp, issued + 1, withRefresh, life, now) IN
         IF r.err # ""
           THEN /\ pc' = [pc EXCEPT ![c] = "L359"]
                /\ UNCHANGED <<issued, newToken, result>>
           ELSE /\ pc' = [pc EXCEPT ![c] = "L364"]
                /\ newToken' = [newToken EXCEPT ![c] = r.tok]
                /\ issued' = issued + 1
                /\ UNCHANGED result
    /\ UNCHANGED <<webVars, config, call, now, token, onTokenRefresh, cbLog, unnotified, seen, from, fn>>

\* The request is answered and tokenRequest returns.  The token endpoint
\* grants no token on an empty refresh_token.  On an error:
\* return nil, "refreshing token: <err>"
ReceiveRefresh(c, resp, withRefresh, life) ==
    /\ pc[c] = "wait"
    /\ TokenRequest(resp, issued + 1, withRefresh, life, now).err = ""
         => (issued < MaxIssued /\ req[c] # 0)
    /\ req' = [req EXCEPT ![c] = 0]
    /\ LET r == TokenRequest(resp, issued + 1, withRefresh, life, now) IN
         IF r.err # ""
           THEN /\ pc' = [pc EXCEPT ![c] = "idle"]
                /\ result' = [result EXCEPT ![c] = Failed("RefreshFailed", r.err)]
                /\ UNCHANGED <<issued, newToken>>
           ELSE /\ pc' = [pc EXCEPT ![c] = "L364"]
                /\ newToken' = [newToken EXCEPT ![c] = r.tok]
                /\ issued' = issued + 1
                /\ UNCHANGED result
    /\ UNCHANGED <<webVars, config, call, now, token, onTokenRefresh, cbLog, unnotified, seen, from, fn>>

\* StoreToken that copies the new Token into the variable m.token points to:
\* *m.token = *newToken
StoreToken_InPlace(c) ==
    /\ pc[c] = "L364"
    /\ token' = [newToken[c] EXCEPT !.id = token.id]
    /\ pc' = [pc EXCEPT ![c] = "L365"]
    /\ UNCHANGED <<webVars, config, call, now, onTokenRefresh, issued, cbLog, unnotified,
                   seen, from, req, newToken, result, fn>>

\* StoreToken that keeps the refresh credential the Manager had.
StoreToken_KeepsRefreshCredential(c) ==
    /\ pc[c] = "L364"
    /\ token' = [newToken[c] EXCEPT !.refresh = token.refresh]
    /\ pc' = [pc EXCEPT ![c] = "L365"]
    /\ UNCHANGED <<webVars, config, call, now, onTokenRefresh, issued, cbLog, unnotified,
                   seen, from, req, newToken, result, fn>>

\* m.token = newToken
StoreToken(c) ==
    /\ pc[c] = "L364"
    /\ token' = newToken[c]
    /\ pc' = [pc EXCEPT ![c] = "L365"]
    /\ UNCHANGED <<webVars, config, call, now, onTokenRefresh, issued, cbLog, unnotified,
                   seen, from, req, newToken, result, fn>>

\* if m.onTokenRefresh != nil
CheckCallback(c) ==
    /\ pc[c] = "L365"
    /\ IF onTokenRefresh = "nil"
         THEN /\ unnotified' = unnotified + 1
              /\ pc' = [pc EXCEPT ![c] = "L369"]
              /\ UNCHANGED fn
         ELSE /\ fn' = [fn EXCEPT ![c] = onTokenRefresh]
              /\ pc' = [pc EXCEPT ![c] = "L366"]
              /\ UNCHANGED unnotified
    /\ UNCHANGED <<webVars, config, call, now, token, onTokenRefresh, issued, cbLog, seen, from, req, newToken, result>>

\* The end of GetToken by a panic at line 366, in place of a return.
Panicked(c, why) ==
    /\ pc' = [pc EXCEPT ![c] = "idle"]
    /\ result' = [result EXCEPT ![c] = Failed("panic", why)]
    /\ newToken' = [newToken EXCEPT ![c] = NilToken]

\* Notify that hands the callback m.token in place of newToken.
Notify_StoredToken(c, reread, panics) ==
    /\ pc[c] = "L366"
    /\ fn' = [fn EXCEPT ![c] = "nil"]
    /\ LET f == IF reread THEN onTokenRefresh ELSE fn[c] IN
         IF f = "nil"
           THEN /\ ~panics
                /\ unnotified' = unnotified + 1
                /\ Panicked(c, "nil func")
                /\ UNCHANGED cbLog
           ELSE /\ cbLog' = Append(cbLog, [fn |-> f, tok |-> token.access])
                /\ UNCHANGED unnotified
                /\ IF panics
                     THEN Panicked(c, "callback")
                     ELSE /\ pc' = [pc EXCEPT ![c] = "L369"]
                          /\ UNCHANGED <<result, newToken>>
    /\ UNCHANGED <<webVars, config, call, now, token, onTokenRefresh, issued, seen, from, req>>

\* Notify that calls callback A whichever callback is registered.
Notify_CallsA(c, reread, panics) ==
    /\ pc[c] = "L366"
    /\ fn' = [fn EXCEPT ![c] = "nil"]
    /\ LET f == IF reread THEN onTokenRefresh ELSE fn[c] IN
         IF f = "nil"
           THEN /\ ~panics
                /\ unnotified' = unnotified + 1
                /\ Panicked(c, "nil func")
                /\ UNCHANGED cbLog
           ELSE /\ cbLog' = Append(cbLog, [fn |-> "A", tok |-> newToken[c].access])
                /\ UNCHANGED unnotified
                /\ IF panics
                     THEN Panicked(c, "callback")
                     ELSE /\ pc' = [pc EXCEPT ![c] = "L369"]
                          /\ UNCHANGED <<result, newToken>>
    /\ UNCHANGED <<webVars, config, call, now, token, onTokenRefresh, issued, seen, from, req>>

\* m.onTokenRefresh(newToken)
\* onTokenRefresh is read at line 365 and at line 366 with no lock, and a
\* SetRefreshCallback may come between: the function called is the one read
\* at line 365 or the one stored now (reread), and calling a nil func
\* panics.  The callback returns or panics; GetToken has no recover, so a
\* panic leaves GetToken in place of its return.
Notify(c, reread, panics) ==
    /\ pc[c] = "L366"
    /\ fn' = [fn EXCEPT ![c] = "nil"]
    /\ LET f == IF reread THEN onTokenRefresh ELSE fn[c] IN
         IF f = "nil"
           THEN /\ ~panics
                /\ unnotified' = unnotified + 1
                /\ Panicked(c, "nil func")
                /\ UNCHANGED cbLog
           ELSE /\ cbLog' = Append(cbLog, [fn |-> f, tok |-> newToken[c].access])
                /\ UNCHANGED unnotified
                /\ IF panics
                     THEN Panicked(c, "callback")
                     ELSE /\ pc' = [pc EXCEPT ![c] = "L369"]
                          /\ UNCHANGED <<result, newToken>>
    /\ UNCHANGED <<webVars, config, call, now, token, onTokenRefresh, issued, seen, from, req>>

\* return m.token, nil
ReturnRefreshed(c) ==
    /\ pc[c] = "L369"
    /\ pc' = [pc EXCEPT ![c] = "idle"]
    /\ result' = [result EXCEPT ![c] = Ok(token)]
    /\ newToken' = [newToken EXCEPT ![c] = NilToken]
    /\ UNCHANGED <<webVars, config, call, now, token, onTokenRefresh, issued, cbLog, unnotified, seen, from, req, fn>>

\* The token responses a response may carry: whether it renews the refresh
\* credential, and its expires_in.  A response that tokenRequest does not
\* parse carries none.
TokenBodies(resp) ==
    IF TokenRequest(resp, 0, FALSE, 0, 0).err = ""
      THEN BOOLEAN \X Lifetimes
      ELSE {<<FALSE, 0>>}

GetToken(c) ==
    \/ CheckNil(c)
    \/ CheckExpired(c)
    \/ ReturnFresh(c)
    \/ CheckRefreshToken(c)
    \/ SendRefresh(c)
    \/ \E resp \in Responses : \E body \in TokenBodies(resp) :
          ReceiveRefresh(c, resp, body[1], body[2])
    \/ StoreToken(c)
    \/ CheckCallback(c)
    \/ \E reread, panics \in BOOLEAN : Notify(c, reread, panics)
    \/ ReturnRefreshed(c)

\* ---------------------------------------------------- TokenManager.GetClient
ProductionBaseURL == "https://api.wise.com"
SandboxBaseURL == "https://api.sandbox.transferwise.tech"

\* A ClientOption applied to a Client.
ApplyOption(opt, cl) ==
    IF opt = "WithSandbox" THEN [cl EXCEPT !.baseURL = SandboxBaseURL] ELSE cl

RECURSIVE ApplyOptions(_, _)
ApplyOptions(opts, cl) ==
    IF opts = <<>> THEN cl
    ELSE ApplyOptions(Tail(opts), ApplyOption(Head(opts), cl))

\* NewClient(apiToken, opts...)
NewClient(apiToken, opts) ==
    ApplyOptions(opts, [apiToken |-> apiToken, baseURL |-> ProductionBaseURL])

\* NewClientWithOAuth that passes no option on.
NewClientWithOAuth_NoOptions(access, sandbox) == NewClient(access, <<>>)

\* NewClientWithOAuth(token, sandbox), of the Token with that access credential
NewClientWithOAuth(access, sandbox) ==
    NewClient(access, IF sandbox THEN <<"WithSandbox">> ELSE <<>>)

\* GetClient that drops the error of GetToken and builds a Client all the
\* same.
GetClient_IgnoresError(c) ==
    /\ pc[c] = "idle"
    /\ result[c].op = "GetToken"
    /\ result[c].kind \notin {"none", "panic"}
    /\ result' = [result EXCEPT ![c] =
                    [op |-> "GetClient", kind |-> "ok", tok |-> -1, err |-> "",
                     client |-> NewClientWithOAuth(result[c].tok, config.Sandbox)]]
    /\ UNCHANGED <<webVars, config, call, now, token, onTokenRefresh, issued, cbLog, unnotified,
                   pc, seen, from, req, newToken, fn>>

\* The GetToken call that GetClient made at line 373 has returned, and
\* GetClient returns:
\* if err != nil { return nil, err }
\* return NewClientWithOAuth(token, m.oauth.config.Sandbox), nil
\* A panic in GetToken passes through GetClient, which then returns nothing.
GetClient(c) ==
    /\ pc[c] = "idle"
    /\ result[c].op = "GetToken"
    /\ result[c].kind \notin {"none", "panic"}
    /\ result' = [result EXCEPT ![c] =
                    IF result[c].kind # "ok"
                      THEN [result[c] EXCEPT !.op = "GetClient"]
                      ELSE [op |-> "GetClient", kind |-> "ok", tok |-> -1, err |-> "",
                            client |-> NewClientWithOAuth(result[c].tok, config.Sandbox)]]
    /\ UNCHANGED <<webVars, config, call, now, token, onTokenRefresh, issued, cbLog, unnotified,
                   pc, seen, from, req, newToken, fn>>

\* SetRefreshCallback is called with another value than the one registered:
\* registering that one again changes nothing.
Next ==
    \/ Tick
    \/ \E cb \in Callbacks \ {onTokenRefresh} : SetRefreshCallback(cb)
    \/ \E c \in Callers : GetToken(c)

Spec == Init /\ [][Next]_vars

\* --------------------------------- a server that rotates refresh credentials
\* The refresh credential that is valid at the server: the one of the token
\* response it sent last, or the one of the Token given at construction.
ValidCredential == issued + 1

\* The server grants a refresh request only on the valid credential, and
\* every token response it sends carries a new refresh credential, which
\* makes the one used invalid.  It may refuse any request, and a request may
\* fail before it reaches the server.
RotatingServer(c) ==
    (pc[c] = "wait" /\ pc'[c] = "L364") =>
        /\ req[c] = ValidCredential
        /\ newToken'[c].refresh = ValidCredential'

\* The concurrent callers of Spec, against that server.
RotatingNext ==
    \/ Tick
    \/ \E cb \in Callbacks \ {onTokenRefresh} : SetRefreshCallback(cb)
    \/ \E c \in Callers : GetToken(c) /\ RotatingServer(c)

RotatingSpec == Init /\ [][RotatingNext]_vars

\* ------------------------------------------------------- one call at a time
\* The TokenManager used as its callers are told to use it: no call begins
\* while another call is inside GetToken, and the callback is registered
\* between calls.
Alone(c) == \A d \in Callers \ {c} : pc[d] = "idle"

\* The values SetRefreshCallback is called with: nil and two functions.
SeqCallbacks == {"nil", "A", "B"}

SeqNext ==
    \/ Tick
    \/ \E cb \in SeqCallbacks :
          (\A c \in Callers : pc[c] = "idle") /\ SetRefreshCallback(cb)
    \/ \E c \in Callers : Alone(c) /\ GetToken(c)

SeqSpec == Init /\ [][SeqNext]_vars

\* ------------------------------------------- GetClient, one call at a time
\* NewOAuthClient(config), for either environment, and NewTokenManager
ClientInit ==
    /\ config \in {EnvConfig(sandbox) : sandbox \in BOOLEAN}
    /\ call = NoCall
    /\ NewTokenManager
    /\ NoDashboard

\* The callers call GetClient, which calls GetToken and then returns.
ClientNext ==
    \/ Tick
    \/ \E cb \in Callbacks :
          (\A c \in Callers : pc[c] = "idle") /\ SetRefreshCallback(cb)
    \/ \E c \in Callers : Alone(c) /\ GetToken(c)
    \/ \E c \in Callers : Alone(c) /\ GetClient(c)

ClientSpec == ClientInit /\ [][ClientNext]_vars

\* -------------------------------------------- net/url and encoding/base64
\* A string is a sequence of characters; a word that holds letters, digits
\* and "_" only ("abc", "client_id") stands as one character.
\* url.QueryEscape of one character: a letter or digit stays, the space
\* becomes "+", every other character its hexadecimal code after "%".
EscapeChar(ch) ==
    CASE ch = " " -> <<"+">>
      [] ch = "%" -> <<"%", "2", "5">>
      [] ch = "&" -> <<"%", "2", "6">>
      [] ch = "+" -> <<"%", "2", "B">>
      [] ch = "/" -> <<"%", "2", "F">>
      [] ch = ":" -> <<"%", "3", "A">>
      [] ch = "=" -> <<"%", "3", "D">>
      [] OTHER -> <<ch>>

\* QueryEscape that leaves every character as it is.
QueryEscape_Identity(str) == str

\* url.QueryEscape
RECURSIVE QueryEscape(_)
QueryEscape(str) ==
    IF str = <<>> THEN <<>> ELSE EscapeChar(Head(str)) \o QueryEscape(Tail(str))

\* strings.Join
RECURSIVE Join(_, _)
Join(strs, sep) ==
    IF strs = <<>> THEN <<>>
    ELSE IF Len(strs) = 1 THEN Head(strs)
    ELSE Head(strs) \o sep \o Join(Tail(strs), sep)

\* The keys AuthURL and the grants set, as sort.Strings orders them.
SortedKeys ==
    <<"client_id", "code", "grant_type", "redirect_uri", "refresh_token",
      "response_type", "scope", "state">>

\* url.Values.Encode: key=value of every key, in the order of the keys,
\* joined by "&", keys and values escaped.
Encode(values) ==
    LET keys == SelectSeq(SortedKeys, LAMBDA k : k \in DOMAIN values) IN
      Join([i \in 1..Len(keys) |->
               QueryEscape(<<keys[i]>>) \o <<"=">> \o QueryEscape(values[keys[i]])],
           <<"&">>)

\* The base64 alphabet of StdEncoding.
Alphabet ==
    <<"A", "B", "C", "D", "E", "F", "G", "H", "I", "J", "K", "L", "M",
      "N", "O", "P", "Q", "R", "S", "T", "U", "V", "W", "X", "Y", "Z",
      "a", "b", "c", "d", "e", "f", "g", "h", "i", "j", "k", "l", "m",
      "n", "o", "p", "q", "r", "s", "t", "u", "v", "w", "x", "y", "z",
      "0", "1", "2", "3", "4", "5", "6", "7", "8", "9", "+", "/">>

\* The byte of a character, []byte(string) of a string.
Ord(ch) ==
    CASE ch = ":" -> 58
      [] ch = "a" -> 97
      [] ch = "s" -> 115
      [] ch = "~" -> 126
Bytes(str) == [i \in 1..Len(str) |-> Ord(str[i])]

\* base64.RawStdEncoding: the encoding that pads nothing.
RECURSIVE EncodeToString_Raw(_)
EncodeToString_Raw(src) ==
    IF src = <<>> THEN <<>>
    ELSE LET n == Len(src)
             val == src[1] * 65536 + (IF n >= 2 THEN src[2] ELSE 0) * 256
                      + (IF n >= 3 THEN src[3] ELSE 0)
             Sextet(k) == Alphabet[((val \div (64 ^ (3 - k))) % 64) + 1]
         IN <<Sextet(0), Sextet(1)>>
              \o (IF n >= 2 THEN <<Sextet(2)>> ELSE <<>>)
              \o (IF n >= 3 THEN <<Sextet(3)>> ELSE <<>>)
              \o (IF n > 3 THEN EncodeToString_Raw(SubSeq(src, 4, n)) ELSE <<>>)

\* base64.StdEncoding.EncodeToString: every three bytes become four
\* characters of the alphabet, six bits each; a last group of one or two
\* bytes is filled with zero bits and padded with "=".
RECURSIVE EncodeToString(_)
EncodeToString(src) ==
    IF src = <<>> THEN <<>>
    ELSE LET n == Len(src)
             val == src[1] * 65536 + (IF n >= 2 THEN src[2] ELSE 0) * 256
                      + (IF n >= 3 THEN src[3] ELSE 0)
             Sextet(k) == Alphabet[((val \div (64 ^ (3 - k))) % 64) + 1]
         IN <<Sextet(0), Sextet(1)>>
              \o (IF n >= 2 THEN <<Sextet(2)>> ELSE <<"=">>)
              \o (IF n >= 3 THEN <<Sextet(3)>> ELSE <<"=">>)
              \o (IF n > 3 THEN EncodeToString(SubSeq(src, 4, n)) ELSE <<>>)

\* ------------------------------------------- the grants of the OAuthClient
ProductionTokenURL == "https://api.wise.com/oauth/token"
SandboxTokenURL == "https://api.sandbox.transferwise.tech/oauth/token"

\* The token URL of a client that does not look at the environment switch.
TokenURL_Production == ProductionTokenURL

\* tokenURL := ProductionTokenURL; if c.config.Sandbox { tokenURL = SandboxTokenURL }
TokenURL == IF config.Sandbox THEN SandboxTokenURL ELSE ProductionTokenURL

\* Everything that may become of a token request.
Statuses == {200, 399, 400, 500}
AllResponses ==
    {Answer(st, b) : st \in Statuses, b \in {"token", "error", "garbage"}}
      \cup {[Answer(st, "token") EXCEPT !.read = e] : st \in Statuses, e \in DoErrors}
      \cup {NoAnswer(e) : e \in DoErrors}
      \cup {[NoAnswer("") EXCEPT !.made = FALSE]}

\* The authorization codes and refresh credentials a caller passes in.
Codes == {0, 1}

\* The text of an authorization code or a refresh credential, "" for 0.
CodeText(n) == [i \in 1..n |-> "c"]

\* No request was made.
NoRequest == [method |-> ""]

\* "Basic " + base64(ClientID + ":" + ClientSecret)
BasicAuth(cfg) ==
    <<"Basic", " ">> \o EncodeToString(Bytes(cfg.ClientID \o <<":">> \o cfg.ClientSecret))

\* The request tokenRequest makes (lines 280-288): a POST to tokenURL with
\* the encoded data as its body, and the two headers set on it.
TokenRequestOf(tokenURL, data) ==
    [method |-> "POST", url |-> tokenURL, body |-> Encode(data),
     header |-> [h \in {"Authorization", "Content-Type"} |->
                   IF h = "Authorization" THEN BasicAuth(config)
                   ELSE <<"application/x-www-form-urlencoded">>]]

\* c.tokenRequest(ctx, tokenURL, data): the call, the request it made if
\* http.NewRequestWithContext made one, and what it returned.  The
\* token response, if the endpoint sends one, carries the access credential
\* 1, a refresh credential if withRefresh, and the lifetime `life`.
Grant(op, data, resp, withRefresh, life) ==
    /\ call' = [op |-> op, url |-> TokenURL, data |-> data,
                request |-> IF resp.made THEN TokenRequestOf(TokenURL, data)
                            ELSE NoRequest,
                resp |-> resp, withRefresh |-> withRefresh, life |-> life, at |-> now,
                ret |-> TokenRequest(resp, 1, withRefresh, life, now)]
    /\ UNCHANGED <<webVars, config, now, token, onTokenRefresh, issued, cbLog, unnotified,
                   pc, seen, from, req, newToken, fn, result>>

\* OAuthClient.ExchangeCode(ctx, code)
ExchangeCode(code, resp, withRefresh, life) ==
    Grant("ExchangeCode",
          [grant_type |-> <<"authorization_code">>, code |-> CodeText(code),
           redirect_uri |-> config.RedirectURL],
          resp, withRefresh, life)

\* OAuthClient.RefreshToken(ctx, refreshToken)
RefreshToken(refreshToken, resp, withRefresh, life) ==
    Grant("RefreshToken",
          [grant_type |-> <<"refresh_token">>,
           refresh_token |-> CodeText(refreshToken)],
          resp, withRefresh, life)

\* OAuthClient.ClientCredentials(ctx)
ClientCredentials(resp, withRefresh, life) ==
    Grant("ClientCredentials", [grant_type |-> <<"client_credentials">>],
          resp, withRefresh, life)

TokenOps == {"ExchangeCode", "RefreshToken", "ClientCredentials"}

\* NewOAuthClient(config), for either environment; no TokenManager is used.
GrantInit ==
    /\ config \in {EnvConfig(sandbox) : sandbox \in BOOLEAN}
    /\ call = NoCall
    /\ NewTokenManager
    /\ NoDashboard
    /\ token = NilToken

GrantNext ==
    \/ Tick
    \/ \E code \in Codes, resp \in AllResponses : \E body \in TokenBodies(resp) :
          ExchangeCode(code, resp, body[1], body[2])
    \/ \E refreshToken \in Codes, resp \in AllResponses : \E body \in TokenBodies(resp) :
          RefreshToken(refreshToken, resp, body[1], body[2])
    \/ \E resp \in AllResponses : \E body \in TokenBodies(resp) :
          ClientCredentials(resp, body[1], body[2])

GrantSpec == GrantInit /\ [][GrantNext]_vars

\* ------------------------------------------------------- OAuthClient.AuthURL
ProductionAuthURL == "https://wise.com/oauth/authorize"
SandboxAuthURL == "https://sandbox.transferwise.tech/oauth/authorize"

\* params of AuthURL: url.Values{} after the calls of Set
AuthParams(cfg, state) ==
    LET keys == {"client_id", "redirect_uri", "response_type", "state"}
                  \cup (IF Len(cfg.Scopes) > 0 THEN {"scope"} ELSE {})
    IN [k \in keys |->
          CASE k = "client_id" -> cfg.ClientID
            [] k = "redirect_uri" -> cfg.RedirectURL
            [] k = "response_type" -> <<"code">>
            [] k = "state" -> state
            [] k = "scope" -> Join(cfg.Scopes, <<" ">>)]

\* OAuthClient.AuthURL(state), of the client configured by cfg
AuthURLOf(cfg, state) ==
    <<IF cfg.Sandbox THEN SandboxAuthURL ELSE ProductionAuthURL>>
      \o <<"?">> \o Encode(AuthParams(cfg, state))

\* The characters strings are made of: a letter, and the characters that
\* mean something in a query.
Chars == {"a", " ", "%", "&", "+", "/", "="}
StringsUpTo(n) == UNION {[1..k -> Chars] : k \in 0..n}

\* http://localhost/cb
LocalhostCb == <<"http", ":", "/", "/", "localhost", "/", "cb">>

ClientIDs == {<<"abc">>, <<"&", "=">>}
RedirectURLs == StringsUpTo(MaxLen) \cup {LocalhostCb}
ScopeNames == {<<>>, <<"a">>, <<"&">>}
ScopeLists == UNION {[1..k -> ScopeNames] : k \in 0..MaxScopes}
States == {<<"xyz">>, <<>>, <<"&", " ">>}

\* OAuthClient.AuthURL(state): the call and what it returned.
AuthURL(state) ==
    /\ call' = [op |-> "AuthURL", state |-> state, ret |-> AuthURLOf(config, state)]
    /\ UNCHANGED <<webVars, config, now, token, onTokenRefresh, issued, cbLog, unnotified,
                   pc, seen, from, req, newToken, fn, result>>

\* NewOAuthClient(config); no TokenManager is used.
AuthURLInit ==
    /\ config \in [Sandbox : BOOLEAN, ClientID : ClientIDs, ClientSecret : {<<"s">>},
                    RedirectURL : RedirectURLs, Scopes : ScopeLists]
    /\ call = NoCall
    /\ NewTokenManager
    /\ NoDashboard
    /\ token = NilToken

AuthURLNext == \E state \in States : AuthURL(state)

AuthURLSpec == AuthURLInit /\ [][AuthURLNext]_vars

\* The state, the authorization code and the refresh credential passed in.
EnvState == <<"xyz">>
EnvCode == 1

\* The lifetime of the Tokens the grants return: an hour.
EnvLife == 60 * SecondsPerMinute

\* ------------------------------------------------ the token request made
\* The client identifiers and secrets tried: a letter, the ":" that
\* separates the two in the header, and a character with other bits.
CredentialChars == {"a", ":", "~"}
Credentials == UNION {[1..k -> CredentialChars] : k \in 0..MaxLen}

\* Whether a request comes to be at all: it is answered, or
\* http.NewRequestWithContext fails.
RequestResponses == {Answer(200, "token"), [NoAnswer("") EXCEPT !.made = FALSE]}

\* NewOAuthClient(config); no TokenManager is used.
RequestInit ==
    /\ config \in [Sandbox : BOOLEAN, ClientID : Credentials, ClientSecret : Credentials,
                    RedirectURL : {<<>>, LocalhostCb, <<"&", "=">>}, Scopes : {<<>>}]
    /\ call = NoCall
    /\ NewTokenManager
    /\ NoDashboard
    /\ token = NilToken

RequestNext ==
    \/ \E code \in Codes, resp \in RequestResponses :
          ExchangeCode(code, resp, TRUE, EnvLife)
    \/ \E refreshToken \in Codes, resp \in RequestResponses :
          RefreshToken(refreshToken, resp, TRUE, EnvLife)
    \/ \E resp \in RequestResponses : ClientCredentials(resp, FALSE, EnvLife)

RequestSpec == RequestInit /\ [][RequestNext]_vars

\* ------------------------------------------ every operation of one client
\* One OAuthClient of either environment and the TokenManager on it: the
\* caller asks for the authorization URL, runs the grants itself, and calls
\* GetClient, one call at a time.
EnvInit ==
    /\ config \in {EnvConfig(sandbox) : sandbox \in BOOLEAN}
    /\ call = NoCall
    /\ NewTokenManager
    /\ NoDashboard

EnvNext ==
    \/ AuthURL(EnvState)
    \/ \E resp \in Responses : ExchangeCode(EnvCode, resp, TRUE, EnvLife)
    \/ \E resp \in Responses : RefreshToken(EnvCode, resp, TRUE, EnvLife)
    \/ \E resp \in Responses : ClientCredentials(resp, FALSE, EnvLife)
    \/ \E c \in Callers : Alone(c) /\ GetToken(c)
    \/ \E c \in Callers : Alone(c) /\ GetClient(c)

EnvSpec == EnvInit /\ [][EnvNext]_vars

\* --------------------------------------------------------- the web dashboard
\* The browsers that use the dashboard.
Browsers == {1, 2}

\* generateState(): random bytes in hexadecimal
OAuthStates == {<<"s1">>, <<"s2">>}

\* A browser that has loaded nothing.  page is where the browser is; LoggedIn,
\* AuthURL and OAuthState are the AppData of the index page it shows; code
\* and state are the parameters the provider sent it back with (code 0: none).
NoPage ==
    [page |-> "closed", LoggedIn |-> FALSE, AuthURL |-> <<>>, OAuthState |-> <<>>,
     code |-> 0, state |-> <<>>]

\* main: OAuth mode with the client credentials of the environment, else
\* token mode with a client of the API token.  tokenMgr is never assigned.
WebInit ==
    /\ config \in {EnvConfig(sandbox) : sandbox \in BOOLEAN}
    /\ authMode \in {"oauth", "token"}
    /\ client = IF authMode = "oauth" THEN NilClient
                ELSE NewClient(0, IF config.Sandbox THEN <<"WithSandbox">> ELSE <<>>)
    /\ browser = [b \in Browsers |-> NoPage]
    /\ call = NoCall
    /\ NewTokenManager
    /\ token = NilToken

\* getClient()
getClient == client

\* v.Page("/"): a browser opens the index page, or the script of the callback
\* page sends it there.  The page is made with a new state and the login
\* state of this moment, and shows the login link when not logged in.
IndexPage(b, st) ==
    /\ browser[b].page \in {"closed", "index", "processing", "done"}
    /\ browser' = [browser EXCEPT ![b] =
         [page |-> "index",
          LoggedIn |-> IF authMode = "oauth" THEN getClient # NilClient ELSE TRUE,
          AuthURL |-> IF authMode = "oauth" THEN AuthURLOf(config, st) ELSE <<>>,
          OAuthState |-> IF authMode = "oauth" THEN st ELSE <<>>,
          code |-> IF @.page = "done" THEN @.code ELSE 0,
          state |-> IF @.page = "done" THEN @.state ELSE <<>>]]
    /\ UNCHANGED <<authMode, client, config, call, now, token, onTokenRefresh, issued,
                   cbLog, unnotified, pc, seen, from, req, newToken, fn, result>>

\* The user follows "Connect with Wise", shown in OAuth mode when not logged in.
Connect(b) ==
    /\ browser[b].page = "index"
    /\ authMode = "oauth" /\ ~browser[b].LoggedIn
    /\ browser' = [browser EXCEPT ![b].page = "provider"]
    /\ UNCHANGED <<authMode, client, config, call, now, token, onTokenRefresh, issued,
                   cbLog, unnotified, pc, seen, from, req, newToken, fn, result>>

\* The provider sends the browser back to the redirect URL with the state
\* of the authorization URL, and with a code when the user granted access.
Redirect(b, code) ==
    /\ browser[b].page = "provider"
    /\ browser' = [browser EXCEPT ![b].page = "callback", ![b].code = code,
                                  ![b].state = browser[b].OAuthState]
    /\ UNCHANGED <<authMode, client, config, call, now, token, onTokenRefresh, issued,
                   cbLog, unnotified, pc, seen, from, req, newToken, fn, result>>

\* v.Page("/oauth/callback"), registered in OAuth mode: the page is shown
\* and its script runs: if (code) { fetch('/oauth/complete?code=...&state=...') }
CallbackPage(b) ==
    /\ browser[b].page = "callback"
    /\ authMode = "oauth"
    /\ browser' = [browser EXCEPT ![b].page =
                     IF browser[b].code # 0 THEN "fetching" ELSE "processing"]
    /\ UNCHANGED <<authMode, client, config, call, now, token, onTokenRefresh, issued,
                   cbLog, unnotified, pc, seen, from, req, newToken, fn, result>>

\* What the server answers a request for a path no page is registered for.
Unrouted == {"not found", "index page"}

\* GET /oauth/complete: startServer registers no page for it, so the server
\* answers as it does for any other path, and nothing of the server
\* changes; the fetch is settled and .then(() => window.location.href = '/')
\* is about to run.
Complete(b, answer) ==
    /\ browser[b].page = "fetching"
    /\ answer \in Unrouted
    /\ browser' = [browser EXCEPT ![b].page = "done"]
    /\ UNCHANGED <<authMode, client, config, call, now, token, onTokenRefresh, issued,
                   cbLog, unnotified, pc, seen, from, req, newToken, fn, result>>

WebNext ==
    \/ \E b \in Browsers, st \in OAuthStates : IndexPage(b, st)
    \/ \E b \in Browsers : Connect(b)
    \/ \E b \in Browsers, code \in Codes : Redirect(b, code)
    \/ \E b \in Browsers : CallbackPage(b)
    \/ \E b \in Browsers, answer \in Unrouted : Complete(b, answer)

WebSpec == WebInit /\ [][WebNext]_vars

\* ------------------------------------------------------------ encoding/json
\* A JSON text is a sequence of characters: the punctuation of JSON, the
\* quotation mark, the literal null, a number, and words.
Q == "\""

\* The character at position i of b, "" past its end.
At(b, i) == IF i \in 1..Len(b) THEN b[i] ELSE ""

\* No JSON value: the text is not JSON from position i on.
NoValue == [ok |-> FALSE, kind |-> "", text |-> <<>>, elems |-> <<>>, next |-> 0]

JSONValue(kind, text, elems, next) ==
    [ok |-> TRUE, kind |-> kind, text |-> text, elems |-> elems, next |-> next]

\* No member of an object read.
NoFields == [k \in {} |-> NoValue]

\* The string that opens at position i: the characters up to the next
\* quotation mark.
ParseString(b, i) ==
    LET closing == {j \in (i + 1)..Len(b) : b[j] = Q}
    IN IF closing = {} THEN NoValue
       ELSE LET j == CHOOSE k \in closing : \A m \in closing : k <= m
            IN JSONValue("string", SubSeq(b, i + 1, j - 1), <<>>, j + 1)

RECURSIVE ParseValue(_, _)
RECURSIVE ParseElements(_, _, _)
RECURSIVE ParseMembers(_, _, _)

\* The elements of an array, the first of them at position i; kinds holds
\* the kinds of the elements before it.
ParseElements(b, i, kinds) ==
    LET v == ParseValue(b, i)
    IN IF ~v.ok THEN NoValue
       ELSE IF At(b, v.next) = ","
         THEN ParseElements(b, v.next + 1, Append(kinds, v.kind))
       ELSE IF At(b, v.next) = "]"
         THEN JSONValue("array", <<>>, Append(kinds, v.kind), v.next + 1)
       ELSE NoValue

\* The members of an object, the name of the first of them at position i;
\* fields holds the members before it.  A name read twice keeps its last
\* value.  The result carries the members in `fields`.
ParseMembers(b, i, fields) ==
    LET name == IF At(b, i) = Q THEN ParseString(b, i) ELSE NoValue
        v == IF name.ok /\ At(b, name.next) = ":"
               THEN ParseValue(b, name.next + 1) ELSE NoValue
        more == [k \in DOMAIN fields \cup {name.text} |->
                   IF k = name.text THEN v ELSE fields[k]]
    IN IF ~v.ok THEN [ok |-> FALSE, fields |-> NoFields, next |-> 0]
       ELSE IF At(b, v.next) = "," THEN ParseMembers(b, v.next + 1, more)
       ELSE IF At(b, v.next) = "}"
         THEN [ok |-> TRUE, fields |-> more, next |-> v.next + 1]
       ELSE [ok |-> FALSE, fields |-> NoFields, next |-> 0]

\* The members of the object that opens at position i.
ParseObject(b, i) ==
    IF At(b, i + 1) = "}" THEN [ok |-> TRUE, fields |-> NoFields, next |-> i + 2]
    ELSE ParseMembers(b, i + 1, NoFields)

\* The JSON value that begins at position i of b.  Of an object inside
\* another value the members are not kept.
ParseValue(b, i) ==
    CASE At(b, i) = "null" -> JSONValue("null", <<>>, <<>>, i + 1)
      [] At(b, i) = "1" -> JSONValue("number", <<>>, <<>>, i + 1)
      [] At(b, i) = Q -> ParseString(b, i)
      [] At(b, i) = "[" ->
           IF At(b, i + 1) = "]" THEN JSONValue("array", <<>>, <<>>, i + 2)
           ELSE ParseElements(b, i + 1, <<>>)
      [] At(b, i) = "{" ->
           LET o == ParseObject(b, i)
           IN IF o.ok THEN JSONValue("object", <<>>, <<>>, o.next) ELSE NoValue
      [] OTHER -> NoValue

\* json.Valid(b): b is one JSON value and nothing more.
Valid(b) == ParseValue(b, 1).ok /\ ParseValue(b, 1).next = Len(b) + 1

\* The member `name` of the object b, the value null if b has none.
Member(b, name) ==
    LET fields == ParseObject(b, 1).fields
    IN IF <<name>> \in DOMAIN fields THEN fields[<<name>>]
       ELSE JSONValue("null", <<>>, <<>>, 0)

\* The zero APIError
ZeroAPIError == [StatusCode |-> 0, Type |-> <<>>, Message |-> <<>>, Errors |-> 0]

\* json.Unmarshal(b, &apiErr) on a zero APIError: the error ("" for none) and
\* the APIError after it.  A JSON null sets nothing; a member of another
\* type than its field, or a value that is no object, is a type error;
\* members without a field are passed over, and StatusCode has the tag "-".
\* Errors is recorded by its length: its elements are objects or null.
UnmarshalAPIError(b) ==
    LET type == Member(b, "type")
        message == Member(b, "message")
        errors == Member(b, "errors")
    IN IF ~Valid(b) THEN [err |-> "syntax", v |-> ZeroAPIError]
       ELSE IF ParseValue(b, 1).kind = "null" THEN [err |-> "", v |-> ZeroAPIError]
       ELSE IF ParseValue(b, 1).kind # "object" THEN [err |-> "type", v |-> ZeroAPIError]
       ELSE [err |-> IF /\ type.kind \in {"null", "string"}
                        /\ message.kind \in {"null", "string"}
                        /\ errors.kind \in {"null", "array"}
                        /\ \A n \in 1..Len(errors.elems) :
                              errors.elems[n] \in {"null", "object"}
                       THEN "" ELSE "type",
             v |-> [StatusCode |-> 0,
                    Type |-> type.text,
                    Message |-> message.text,
                    Errors |-> IF errors.kind = "array" THEN Len(errors.elems) ELSE 0]]

\* What Request is given to decode into: nothing, a struct (&profile) or a
\* slice of structs (&profiles).
Targets == {"nil", "struct", "slice"}

\* json.Unmarshal(b, result): the error ("" for none) and the kind of the
\* value decoded into the result ("" when nothing was).
UnmarshalResult(b, target) ==
    LET v == ParseValue(b, 1)
    IN IF ~Valid(b) THEN [err |-> "syntax", kind |-> ""]
       ELSE IF v.kind = "null" THEN [err |-> "", kind |-> ""]
       ELSE IF target = "struct"
         THEN IF v.kind = "object" THEN [err |-> "", kind |-> "object"]
              ELSE [err |-> "type", kind |-> ""]
       ELSE IF v.kind = "array" /\ \A n \in 1..Len(v.elems) : v.elems[n] \in {"null", "object"}
         THEN [err |-> "", kind |-> "array"]
       ELSE [err |-> "type", kind |-> ""]

\* ----------------------------------------------------------- Client.Request
\* What Request returns: nil, an error made by fmt.Errorf (err, wrapping
\* cause), or an *APIError; and what it decoded into the result.
NoAPIError == [StatusCode |-> -1, Type |-> <<>>, Message |-> <<>>, Errors |-> 0]
Returned(kind, err, cause, api, decoded) ==
    [kind |-> kind, err |-> err, cause |-> cause, api |-> api, decoded |-> decoded]
RequestError(err, cause) == Returned("error", err, cause, NoAPIError, "")

\* Lines 136-146 with the status of the response left as json.Unmarshal
\* made it.
APIErrorOf_KeepsZeroStatus(status, respBody) ==
    LET parsed == UnmarshalAPIError(respBody)
    IN IF parsed.err # ""
         THEN [ZeroAPIError EXCEPT !.StatusCode = status, !.Message = respBody]
         ELSE parsed.v

\* Lines 137-145: the *APIError returned for a status >= 400
APIErrorOf(status, respBody) ==
    LET parsed == UnmarshalAPIError(respBody)
    IN IF parsed.err # ""
         THEN [ZeroAPIError EXCEPT !.StatusCode = status, !.Message = respBody]
         ELSE [parsed.v EXCEPT !.StatusCode = status]

\* The outcome of c.Request(ctx, method, path, query, body, result): whether
\* url.Parse took the path (pathOK) and json.Marshal the body (bodyOK), what
\* became of the request (resp, whose body is a JSON text), and the result
\* to decode into (target).
RequestOutcome(pathOK, bodyOK, resp, target) ==
    IF ~pathOK THEN RequestError("parsing URL", "url")
    ELSE IF ~bodyOK THEN RequestError("marshaling request body", "json")
    ELSE IF ~resp.made THEN RequestError("creating request", "nil Context")
    ELSE IF resp.do # "" THEN RequestError("executing request", resp.do)
    ELSE IF resp.read # "" THEN RequestError("reading response body", resp.read)
    ELSE IF resp.status >= 400
      THEN Returned("APIError", "", "", APIErrorOf(resp.status, resp.body), "")
    ELSE IF target # "nil" /\ Len(resp.body) > 0
      THEN LET decoded == UnmarshalResult(resp.body, target)
           IN IF decoded.err # ""
                THEN RequestError("unmarshaling response", decoded.err)
                ELSE Returned("nil", "", "", NoAPIError, decoded.kind)
    ELSE Returned("nil", "", "", NoAPIError, "")

\* The bodies the API answers with: nothing, an error object, an error
\* object with validation errors, an error object whose message is no
\* string, an object of something else, a list, null, a string, a page that
\* is no JSON, and a JSON text cut short.
Bodies ==
    { <<>>,
      <<"{", Q, "type", Q, ":", Q, "gone", Q, ",", Q, "message", Q, ":", Q, "not", "found", Q, "}">>,
      <<"{", Q, "message", Q, ":", Q, "bad", Q, ",", Q, "errors", Q, ":", "[", "{", "}", ",", "{", "}", "]", "}">>,
      <<"{", Q, "message", Q, ":", "1", "}">>,
      <<"{", Q, "id", Q, ":", "1", "}">>,
      <<"{", "}">>,
      <<"[", "{", Q, "id", Q, ":", "1", "}", "]">>,
      <<"[", "1", "]">>,
      <<"null">>,
      <<Q, "bad", Q>>,
      <<"<html>">>,
      <<"{", Q, "message", Q, ":">> }

\* The statuses the API answers with
APIStatuses == {200, 204, 302, 399, 400, 401, 404, 500}

\* What becomes of the request of one call
APIResponses ==
    {[made |-> TRUE, do |-> "", read |-> "", status |-> st, body |-> b] :
        st \in APIStatuses, b \in Bodies}
    \cup {[made |-> TRUE, do |-> "", read |-> e, status |-> st, body |-> <<>>] :
            st \in {200, 500}, e \in DoErrors}
    \cup {[made |-> TRUE, do |-> e, read |-> "", status |-> 0, body |-> <<>>] : e \in DoErrors}
    \cup {[made |-> FALSE, do |-> "", read |-> "", status |-> 0, body |-> <<>>]}

\* One call of Request on a Client
Request(pathOK, bodyOK, resp, target) ==
    /\ call' = [op |-> "Request", pathOK |-> pathOK, bodyOK |-> bodyOK,
                resp |-> resp, target |-> target,
                ret |-> RequestOutcome(pathOK, bodyOK, resp, target)]
    /\ UNCHANGED <<webVars, config, now, token, onTokenRefresh, issued, cbLog, unnotified,
                   pc, seen, from, req, newToken, fn, result>>

\* NewClient(apiToken): no OAuthClient and no TokenManager are used.
APIInit ==
    /\ config = EnvConfig(FALSE)
    /\ call = NoCall
    /\ NewTokenManager
    /\ NoDashboard
    /\ token = NilToken

\* A request whose URL or body is refused is not sent.
APINext ==
    \/ \E resp \in APIResponses, target \in Targets : Request(TRUE, TRUE, resp, target)
    \/ \E pathOK, bodyOK \in BOOLEAN :
          /\ ~(pathOK /\ bodyOK)
          /\ Request(pathOK, bodyOK, NoAnswer(""), "nil")

APISpec == APIInit /\ [][APINext]_vars

\* ------------------------------------------------ commands: the Wise account
\* The sequences over S of length n at most
Lists(S, n) == UNION {[1..k -> S] : k \in 0..n}

\* The profiles of the account, by ID
ProfileIDs == {1, 2}
ProfileTypeOf(id) == IF id = 1 THEN "personal" ELSE "business"

\* The currency and the ID of the balance at position i of a profile
CurrencyAt(i) == <<"EUR", "USD", "GBP", "JPY">>[i]
BalanceID(profileID, i) == 10 * profileID + i

\* A balance holds nothing ("zero"), or holds money and has a statement
\* that can be fetched ("funded") or cannot ("unreadable").
BalanceKinds == {"zero", "funded", "unreadable"}

\* The balances of a profile, or the failure to list them
Accounts ==
    {[err |-> TRUE, kinds |-> <<>>]}
    \cup {[err |-> FALSE, kinds |-> kinds] : kinds \in Lists(BalanceKinds, MaxLen)}

\* The account that the API serves: whether listing the profiles fails,
\* and the profiles in the order in which the API lists them.
Worlds ==
    {[listErr |-> TRUE, profiles |-> <<>>]}
    \cup {[listErr |-> FALSE, profiles |-> ps] :
            ps \in {l \in Lists([ID : ProfileIDs, account : Accounts], Cardinality(ProfileIDs)) :
                      \A i, j \in 1..Len(l) : i # j => l[i].ID # l[j].ID}}

\* An error: the call that failed and the profile or balance it was made
\* for, and the profile named by the text that wraps it (0 when not wrapped).
NoError == [op |-> "", id |-> 0, wrap |-> 0]
ErrorOf(op, id) == [op |-> op, id |-> id, wrap |-> 0]

\* client.Profiles.List(ctx)
ProfilesList(world) ==
    IF world.listErr THEN [err |-> ErrorOf("Profiles.List", 0), profiles |-> <<>>]
    ELSE [err |-> NoError,
          profiles |-> [i \in 1..Len(world.profiles) |->
                          [ID |-> world.profiles[i].ID,
                           Type |-> ProfileTypeOf(world.profiles[i].ID)]]]

\* client.Balances.List(ctx, p.ID, nil), on the profile at position i
BalancesList(world, i) ==
    LET p == world.profiles[i]
    IN IF p.account.err THEN [err |-> ErrorOf("Balances.List", p.ID), balances |-> <<>>]
       ELSE [err |-> NoError,
             balances |-> [j \in 1..Len(p.account.kinds) |->
                             [ID |-> BalanceID(p.ID, j),
                              Currency |-> CurrencyAt(j),
                              Amount |-> IF p.account.kinds[j] = "zero" THEN 0 ELSE 5,
                              kind |-> p.account.kinds[j]]]]

\* client.Balances.GetStatement(ctx, p.ID, b.ID, b.Currency, start, end)
GetStatement(b) ==
    IF b.kind = "unreadable"
      THEN [err |-> ErrorOf("GetStatement", b.ID), statements |-> <<>>]
      ELSE [err |-> NoError,
            statements |-> <<[Type |-> "CREDIT", Amount |-> b.Amount, Currency |-> b.Currency]>>]

\* ------------------------------------------------------ commands.GetBalances
\* Lines 145-156: the result of one profile
BalanceResultOf(world, i, p) ==
    LET listed == BalancesList(world, i)
    IN [ProfileID |-> p.ID, ProfileType |-> p.Type,
        Balances |-> [j \in 1..Len(listed.balances) |->
                        [Currency |-> listed.balances[j].Currency,
                         Amount |-> listed.balances[j].Amount]],
        Error |-> listed.err]

\* Lines 144-158: for _, p := range profiles, from position i on
RECURSIVE BalancesLoop(_, _, _, _)
BalancesLoop(world, profiles, i, results) ==
    IF i > Len(profiles) THEN results
    ELSE BalancesLoop(world, profiles, i + 1,
                      Append(results, BalanceResultOf(world, i, profiles[i])))

\* GetBalances(ctx, client): the results and the error
GetBalancesOutcome(world) ==
    LET listed == ProfilesList(world)
    IN IF listed.err # NoError THEN [results |-> <<>>, err |-> listed.err, days |-> 0]
       ELSE [results |-> BalancesLoop(world, listed.profiles, 1, <<>>),
             err |-> NoError, days |-> 0]

\* ---------------------------------------------------- commands.GetStatements
\* Lines 190-203: the result of one balance
StatementResultOf(b) ==
    LET got == GetStatement(b)
    IN [Currency |-> b.Currency, BalanceID |-> b.ID,
        Transactions |-> got.statements,
        Error |-> got.err]

\* Lines 186-205: for _, b := range balances, from position j on
RECURSIVE StatementsOfBalances(_, _, _)
StatementsOfBalances(balances, j, results) ==
    IF j > Len(balances) THEN results
    ELSE IF balances[j].Amount = 0
      THEN StatementsOfBalances(balances, j + 1, results)
      ELSE StatementsOfBalances(balances, j + 1,
                                Append(results, StatementResultOf(balances[j])))

\* Line 182: StatementResult{Error: fmt.Errorf("profile %d: %w", p.ID, err)}
ProfileFailed(p, err) ==
    [Currency |-> "", BalanceID |-> 0, Transactions |-> <<>>,
     Error |-> [err EXCEPT !.wrap = p.ID]]

\* The loop over the profiles that ends at the first profile whose balances
\* cannot be listed.
RECURSIVE StatementsLoop_StopsAtFailure(_, _, _, _)
StatementsLoop_StopsAtFailure(world, profiles, i, results) ==
    IF i > Len(profiles) THEN results
    ELSE LET listed == BalancesList(world, i)
         IN IF listed.err # NoError
              THEN Append(results, ProfileFailed(profiles[i], listed.err))
              ELSE StatementsLoop_StopsAtFailure(world, profiles, i + 1,
                                  StatementsOfBalances(listed.balances, 1, results))

\* Lines 179-206: for _, p := range profiles, from position i on
RECURSIVE StatementsLoop(_, _, _, _)
StatementsLoop(world, profiles, i, results) ==
    IF i > Len(profiles) THEN results
    ELSE LET listed == BalancesList(world, i)
         IN IF listed.err # NoError
              THEN StatementsLoop(world, profiles, i + 1,
                                  Append(results, ProfileFailed(profiles[i], listed.err)))
              ELSE StatementsLoop(world, profiles, i + 1,
                                  StatementsOfBalances(listed.balances, 1, results))

\* The days GetStatements is called with
DefaultStatementDays == 30
StatementDays == {-1, 0, 7}

\* GetStatements(ctx, client, days): the results, the error, and the days
\* of the interval asked for
GetStatementsOutcome(world, days) ==
    LET period == IF days <= 0 THEN DefaultStatementDays ELSE days
        listed == ProfilesList(world)
    IN IF listed.err # NoError THEN [results |-> <<>>, err |-> listed.err, days |-> period]
       ELSE [results |-> StatementsLoop(world, listed.profiles, 1, <<>>),
             err |-> NoError, days |-> period]

\* The commands are called on the account `call.world`, which they leave
\* as it is.
GetBalances ==
    /\ call' = [op |-> "GetBalances", world |-> call.world, days |-> 0,
                ret |-> GetBalancesOutcome(call.world)]
    /\ UNCHANGED <<webVars, config, now, token, onTokenRefresh, issued, cbLog, unnotified,
                   pc, seen, from, req, newToken, fn, result>>

GetStatements(days) ==
    /\ call' = [op |-> "GetStatements", world |-> call.world, days |-> days,
                ret |-> GetStatementsOutcome(call.world, days)]
    /\ UNCHANGED <<webVars, config, now, token, onTokenRefresh, issued, cbLog, unnotified,
                   pc, seen, from, req, newToken, fn, result>>

\* A client of some account, and no call made yet
CommandsInit ==
    /\ config = EnvConfig(FALSE)
    /\ call \in {[op |-> "none", world |-> w, days |-> 0,
                  ret |-> [results |-> <<>>, err |-> NoError, days |-> 0]] : w \in Worlds}
    /\ NewTokenManager
    /\ NoDashboard
    /\ token = NilToken

CommandsNext ==
    \/ GetBalances
    \/ \E days \in StatementDays : GetStatements(days)

CommandsSpec == CommandsInit /\ [][CommandsNext]_vars

\* --------------------------------------------------- commands.GetRateHistory
\* A rate is a whole number of hundredths.
RateValues == {1, 2, 3}

\* What client.ExchangeRates.GetHistory(ctx, params) returns: an error, or
\* the rates of the period, the rate at position i taken 90 seconds after
\* the one before it.
Histories ==
    {[err |-> ErrorOf("GetHistory", 0), rates |-> <<>>]}
    \cup {[err |-> NoError,
           rates |-> [i \in 1..Len(l) |-> [Rate |-> l[i], Time |-> 90 * i]]] :
            l \in Lists(RateValues, MaxLen + 1)}

\* r.Time.Format("2006-01-02 15:04"): the time to the minute
FormatMinute(t) == t \div SecondsPerMinute

\* The loop body that never lowers Min.
HistoryStep_KeepsMin(res, r) ==
    [res EXCEPT !.DataPoints = Append(@, [Time |-> FormatMinute(r.Time), Rate |-> r.Rate]),
                !.Max = IF r.Rate > @ THEN r.Rate ELSE @]

\* Lines 290-299: the body of the loop over the rates
HistoryStep(res, r) ==
    [res EXCEPT !.DataPoints = Append(@, [Time |-> FormatMinute(r.Time), Rate |-> r.Rate]),
                !.Min = IF r.Rate < @ THEN r.Rate ELSE @,
                !.Max = IF r.Rate > @ THEN r.Rate ELSE @]

\* Lines 289-300: for _, r := range rates, from position i on
RECURSIVE HistoryLoop(_, _, _)
HistoryLoop(rates, i, res) ==
    IF i > Len(rates) THEN res
    ELSE HistoryLoop(rates, i + 1, HistoryStep(res, rates[i]))

\* The days and the groups GetRateHistory is called with
DefaultHistoryDays == 7
HistoryDays == {-1, 0, 3}
HistoryGroups == {"", "hour"}

\* GetRateHistory(ctx, client, from, to, days, group), the rates being those
\* of `history`: the HistoryResult, and the days and the group of the
\* period asked of GetHistory.
GetRateHistoryOutcome(history, from_, to_, days, group) ==
    LET period == IF days <= 0 THEN DefaultHistoryDays ELSE days
        interval == IF group = "" THEN "day" ELSE group
        empty == [From |-> from_, To |-> to_, DataPoints |-> <<>>,
                  Min |-> 0, Max |-> 0, First |-> 0, Last |-> 0, Error |-> NoError,
                  days |-> period, group |-> interval]
        rates == history.rates
    IN IF history.err # NoError THEN [empty EXCEPT !.Error = history.err]
       ELSE IF Len(rates) = 0
         THEN [empty EXCEPT !.Error = ErrorOf("no historical data found", 0)]
       ELSE HistoryLoop(rates, 1,
                        [empty EXCEPT !.First = rates[1].Rate,
                                      !.Last = rates[Len(rates)].Rate,
                                      !.Min = rates[1].Rate,
                                      !.Max = rates[1].Rate])

\* The command is called on the history `call.history`.
GetRateHistory(days, group) ==
    /\ call' = [op |-> "GetRateHistory", history |-> call.history,
                days |-> days, group |-> group,
                ret |-> GetRateHistoryOutcome(call.history, "EUR", "USD", days, group)]
    /\ UNCHANGED <<webVars, config, now, token, onTokenRefresh, issued, cbLog, unnotified,
                   pc, seen, from, req, newToken, fn, result>>

\* A client whose API holds some history of rates, and no call made yet
HistoryInit ==
    /\ config = EnvConfig(FALSE)
    /\ call \in {[op |-> "none", history |-> h, days |-> 0, group |-> "",
                  ret |-> GetRateHistoryOutcome([err |-> ErrorOf("GetHistory", 0),
                                                 rates |-> <<>>], "", "", 0, "")] :
                   h \in Histories}
    /\ NewTokenManager
    /\ NoDashboard
    /\ token = NilToken

HistoryNext == \E days \in HistoryDays, group \in HistoryGroups : GetRateHistory(days, group)

HistorySpec == HistoryInit /\ [][HistoryNext]_vars

\* ------------------------------------------------------------------ claims

\* C1: concurrent GetToken calls on one TokenManager send at most one
\* refresh request between them: no two callers are at once between sending
\* the refresh request and replacing m.token.
C1_SingleRefresh ==
    \A c1, c2 \in Callers :
        c1 # c2 => ~(pc[c1] \in {"wait", "L364"} /\ pc[c2] \in {"wait", "L364"})

\* C2: the GetToken calls that found the same Token expired and returned
\* without error all return the same Token.
C2_SameFreshToken ==
    \A c1, c2 \in Callers :
        ( /\ pc[c1] = "idle" /\ pc[c2] = "idle"
          /\ result[c1].kind = "ok" /\ result[c2].kind = "ok"
          /\ from[c1] >= 0 /\ from[c1] = from[c2] )
        => result[c1].tok = result[c2].tok

\* C3 as stated: IsExpired() is true exactly when now >= expiry - 5min, the
\* instant now + 5min = expiry included.
C3_ExpiredAtOrAfter ==
    \A c \in Callers :
        seen[c].any => (seen[c].ret <=> seen[c].at >= seen[c].exp - Buffer)

\* C3 as amended: IsExpired() is true exactly when now + 5min is strictly
\* after the expiry (now > expiry - 5min); at the instant where now + 5min
\* equals the expiry it is false.
C3_ExpiredStrictlyAfter ==
    \A c \in Callers :
        seen[c].any => (seen[c].ret <=> seen[c].at > seen[c].exp - Buffer)

\* A caller evaluated IsExpired() at the instant now + 5min = expiry, and
\* got false.
C3_Witness ==
    \E c \in Callers :
        seen[c].any /\ seen[c].at + Buffer = seen[c].exp /\ ~seen[c].ret

\* C4: a failed refresh leaves m.token and the callback alone and m.token is
\* not nil after it; every refresh request carries the refresh credential of
\* the Token stored when it is sent; and as long as the manager holds the
\* Token a failed call found expired, that Token is expired and has a
\* refresh credential, so that the next call refreshes with it again.
C4_FailedRefreshKeepsToken ==
    /\ [][\A c \in Callers :
            /\ (pc[c] = "wait" /\ pc'[c] = "idle") =>
                  /\ result'[c].kind = "RefreshFailed"
                  /\ token' = token /\ token' # NilToken
                  /\ cbLog' = cbLog /\ unnotified' = unnotified
            /\ (pc[c] = "L359" /\ pc'[c] = "wait") => req'[c] = token.refresh
            /\ token # NilToken => token' # NilToken]_vars
    /\ [](\A c \in Callers :
            ( /\ pc[c] = "idle" /\ result[c].kind = "RefreshFailed"
              /\ token.access = from[c] )
            => IsExpired(token, now) /\ token.refresh # 0)

\* A refresh failed and the manager still holds the stale Token, refresh
\* credential included, while the other caller refreshes with it.
C4_Witness ==
    \E c, d \in Callers :
        /\ pc[c] = "idle" /\ result[c].kind = "RefreshFailed"
        /\ token.access = from[c] /\ token.refresh # 0
        /\ pc[d] = "wait" /\ req[d] = token.refresh

\* C5: a GetToken call that finds m.token not expired sends no refresh
\* request, leaves m.token alone, does not invoke the callback and returns
\* the stored Token.
C5_FreshReadIsIdempotent ==
    [][\A c \in Callers :
         ((pc[c] = "L351" /\ pc'[c] = "L352") \/ (pc[c] = "L352" /\ pc'[c] # "L352"))
         => /\ token' = token
            /\ cbLog' = cbLog /\ unnotified' = unnotified
            /\ req' = req /\ issued' = issued
            /\ pc[c] = "L352" =>
                 /\ pc'[c] = "idle"
                 /\ result'[c] = Ok(token)]_vars

\* Both callers read the same Token that is not expired.
C5_Witness ==
    /\ ~IsExpired(token, now)
    /\ \A c \in Callers :
         /\ pc[c] = "idle" /\ from[c] = -1
         /\ result[c] = Ok(token)
    /\ issued = 0 /\ cbLog = <<>>

\* C6: from the replacement of m.token to the return the manager holds the
\* new Token of the call: the callback runs when the manager holds the Token
\* it is given, and that Token is the one returned.
C6_CallbackThenReturnNewToken ==
    \A c \in Callers : pc[c] \in {"L365", "L366", "L369"} => token = newToken[c]

\* C7: the callback has been invoked once for every successful refresh that
\* found a callback registered, each time with the Token of that refresh;
\* refreshes answered and not yet past the callback are still to come.
C7_CallbackOncePerRefresh ==
    /\ Len(cbLog) + unnotified
         + Cardinality({c \in Callers : pc[c] \in {"L364", "L365", "L366"}}) = issued
    /\ \A i \in 1..Len(cbLog) : cbLog[i].tok \in 1..issued
    /\ \A i, j \in 1..Len(cbLog) : i # j => cbLog[i].tok # cbLog[j].tok

\* Two refreshes succeeded with a callback registered and the callback was
\* invoked twice, while a call has returned the Token still fresh.
C7_Witness ==
    /\ Len(cbLog) = 2 /\ issued = 2 /\ unnotified = 0
    /\ \A c \in Callers : pc[c] = "idle"
    /\ \E c \in Callers : result[c].kind = "ok" /\ from[c] = -1

\* C8: a GetToken call that finds the stored Token expired and without a
\* refresh credential fails with RefreshUnavailable, sends no refresh request
\* and leaves m.token alone.
C8_NoRefreshCredential ==
    [][\A c \in Callers :
         (pc[c] = "L355" /\ pc'[c] # "L355" /\ token.refresh = 0)
         => /\ pc'[c] = "idle"
            /\ result'[c].kind = "RefreshUnavailable"
            /\ token' = token
            /\ req' = req /\ issued' = issued
            /\ cbLog' = cbLog]_vars

\* A call failed with RefreshUnavailable on an expired Token that has no
\* refresh credential.
C8_Witness ==
    \E c \in Callers :
        /\ pc[c] = "idle" /\ result[c].kind = "RefreshUnavailable"
        /\ token.access = from[c] /\ token.refresh = 0
        /\ IsExpired(token, now)

\* C9: GetToken on a manager with a nil Token fails with NoTokenAvailable,
\* sends no refresh request, invokes no callback and changes nothing of the
\* manager.
C9_NoTokenAvailable ==
    [][\A c \in Callers :
         (pc[c] = "idle" /\ token = NilToken /\ (result'[c] # result[c] \/ pc'[c] # pc[c]))
         => /\ pc'[c] = "idle"
            /\ result'[c].kind = "NoTokenAvailable"
            /\ token' = token /\ onTokenRefresh' = onTokenRefresh
            /\ req' = req /\ issued' = issued
            /\ cbLog' = cbLog]_vars

\* A call on a manager with a nil Token has failed with NoTokenAvailable.
C9_Witness ==
    \E c \in Callers :
        /\ token = NilToken
        /\ pc[c] = "idle" /\ result[c].kind = "NoTokenAvailable"

\* C10: a GetToken call whose callback fails still returns: no call ends
\* with the panic of its callback.
C10_CallbackFailureIsolated ==
    \A c \in Callers : ~(result[c].kind = "panic" /\ result[c].err = "callback")

\* C11: a GetToken call that refreshed returns a Token that is not expired:
\* when the call returns m.token at line 369, IsExpired() is false of it,
\* whatever lifetime the token endpoint reported.
C11_RefreshedTokenIsFresh ==
    [][\A c \in Callers :
         (pc[c] = "L369" /\ pc'[c] = "idle" /\ result'[c].kind = "ok")
         => ~IsExpired(token', now')]_vars

\* C12 as stated: once a GetToken call has failed because the refresh request
\* failed or because the expired Token has no refresh credential, no later
\* GetToken call succeeds: while a caller holds such a failure as the result
\* of its last call, no call of another caller returns a Token.
C12_UnrecoverableIsTerminal ==
    [][\A c, d \in Callers :
         ( /\ c # d
           /\ pc[d] = "idle"
           /\ result[d].kind \in {"RefreshFailed", "RefreshUnavailable"}
           /\ pc[c] # "idle" /\ pc'[c] = "idle" )
         => result'[c].kind # "ok"]_vars

\* The Manager holds an expired Token that has no refresh credential and no
\* refresh request is on its way.
Unrecoverable ==
    /\ token # NilToken
    /\ token.refresh = 0
    /\ IsExpired(token, now)
    /\ \A c \in Callers : pc[c] \notin {"L359", "wait", "L364"}

\* C12 as amended: only the lack of a refresh credential is terminal.  Once
\* the Manager is Unrecoverable in that sense it stays so with the same
\* Token, and every GetToken call that begins from then on finds the Token
\* expired and fails with RefreshUnavailable.
C12_NoCredentialIsTerminal ==
    [][Unrecoverable =>
         /\ Unrecoverable'
         /\ token' = token
         /\ \A c \in Callers :
              /\ (pc[c] = "idle" /\ pc'[c] # "idle") => pc'[c] = "L351"
              /\ (pc[c] = "L351" /\ pc'[c] # "L351") => pc'[c] = "L355"
              /\ (pc[c] = "L355" /\ pc'[c] # "L355") =>
                    /\ pc'[c] = "idle"
                    /\ result'[c].kind = "RefreshUnavailable"]_vars

\* Two calls in a row have failed with RefreshUnavailable on the same expired
\* Token.
C12_Witness ==
    /\ Unrecoverable
    /\ \A c \in Callers :
         /\ pc[c] = "idle" /\ result[c].kind = "RefreshUnavailable"
         /\ from[c] = token.access

\* C13: the TokenManager keeps one callback, the one registered last: a
\* successful refresh calls the function onTokenRefresh holds, once, with the
\* new Token, and calls no other function; no step but that one calls a
\* callback, registering one included.
C13_LastRegistrationWins ==
    [][/\ \A c \in Callers :
            (pc[c] = "L366" /\ pc'[c] # "L366") =>
               cbLog' = Append(cbLog, [fn |-> onTokenRefresh, tok |-> newToken[c].access])
       /\ cbLog' # cbLog => \E c \in Callers : pc[c] = "L366" /\ pc'[c] # "L366"]_vars

\* A was registered and a refresh called it; then B was registered in its
\* place and the next refresh called B, once, and not A.
C13_Witness ==
    /\ Len(cbLog) = 2
    /\ cbLog[1].fn = "A" /\ cbLog[2].fn = "B"
    /\ onTokenRefresh = "B"
    /\ \A c \in Callers : pc[c] = "idle"

\* C14: GetClient fails exactly when its GetToken call failed, and with the
\* error of that call; when GetToken returned a Token, GetClient returns a
\* Client whose credential is the access credential of that Token and whose
\* base URL is the one of the environment of the configuration.  GetClient
\* changes nothing of the manager after GetToken returned.
C14_GetClientFollowsGetToken ==
    [][\A c \in Callers :
         (result[c].op = "GetToken" /\ result'[c].op = "GetClient") =>
            /\ result'[c].kind = "ok" <=> result[c].kind = "ok"
            /\ result[c].kind # "ok" =>
                 /\ result'[c].kind = result[c].kind
                 /\ result'[c].err = result[c].err
                 /\ result'[c].client = NilClient
            /\ result[c].kind = "ok" =>
                 /\ result'[c].client.apiToken = result[c].tok
                 /\ result'[c].client.baseURL =
                      (IF config.Sandbox THEN SandboxBaseURL ELSE ProductionBaseURL)
            /\ token' = token /\ cbLog' = cbLog /\ issued' = issued]_vars

\* On a sandbox configuration one GetClient call has returned a Client for
\* the sandbox that carries the access credential of a refreshed Token, and
\* another has failed with the error of its GetToken call.
C14_Witness ==
    /\ config.Sandbox
    /\ \E c, d \in Callers :
         /\ pc[c] = "idle" /\ result[c].op = "GetClient" /\ result[c].kind = "ok"
         /\ result[c].client = [apiToken |-> token.access, baseURL |-> SandboxBaseURL]
         /\ token.access > 0
         /\ pc[d] = "idle" /\ result[d].op = "GetClient"
         /\ result[d].kind = "RefreshFailed"

\* C15: IsExpired() is true of a Token whose expiry is the zero instant, at
\* whatever time it is evaluated.
C15_ZeroTokenIsExpired ==
    \A c \in Callers : (seen[c].any /\ seen[c].exp = 0) => seen[c].ret

\* GetToken evaluated IsExpired(), some time after the construction, on the
\* Token the manager was constructed with, whose expiry is the zero instant,
\* and got true.
C15_Witness ==
    \E c \in Callers :
        /\ seen[c].any /\ seen[c].exp = 0 /\ seen[c].at > 0 /\ seen[c].ret
        /\ token.access = 0 /\ token.expiresAt = 0

\* The token endpoint answered the request of the last call: the request
\* went out and the response came back whole.
Answered == call.resp.made /\ call.resp.do = "" /\ call.resp.read = ""

C17_RefreshedTokenHasRefreshCredential ==
    token.access > 0 => token.refresh # 0

\* How far into GetToken a position is.
Rank(p) ==
    CASE p = "idle" -> 0
      [] p = "L351" -> 1
      [] p \in {"L352", "L355"} -> 2
      [] p = "L359" -> 3
      [] p = "wait" -> 4
      [] p = "L364" -> 5
      [] p = "L365" -> 6
      [] p = "L366" -> 7
      [] p = "L369" -> 8

\* The errors of tokenRequest.
TokenRequestErrors ==
    {"creating request", "executing request", "reading response",
     "token request failed", "parsing token response"}

\* C18: a GetToken call only moves forward until it returns, and sends a
\* refresh request at line 359 only, so that it sends at most one; when the
\* request fails the call returns at once, with the error of the token
\* request, and has stored nothing.
C18_NoRetryNoSwallow ==
    [][\A c \in Callers :
         /\ pc'[c] # pc[c] => (pc'[c] = "idle" \/ Rank(pc'[c]) > Rank(pc[c]))
         /\ req'[c] # 0 => (req[c] # 0 \/ (pc[c] = "L359" /\ pc'[c] = "wait"))
         /\ (pc[c] = "wait" /\ pc'[c] # "wait") =>
              \/ pc'[c] = "L364" /\ result'[c] = result[c]
              \/ /\ pc'[c] = "idle"
                 /\ result'[c].kind = "RefreshFailed"
                 /\ result'[c].err \in TokenRequestErrors
                 /\ token' = token /\ issued' = issued]_vars

\* A call has returned the error of its one refresh request, which the token
\* endpoint refused, and the manager holds the Token the call found expired.
C18_Witness ==
    \E c \in Callers :
        /\ pc[c] = "idle" /\ result[c].kind = "RefreshFailed"
        /\ result[c].err = "token request failed"
        /\ token.access = from[c] /\ issued = 0

\* The context of the caller ended while the request of the last call was in
\* flight: before the response came, or while its body was read.
ContextEnded ==
    /\ call.resp.made
    /\ \/ call.resp.do \in ContextErrors
       \/ call.resp.do = "" /\ call.resp.read \in ContextErrors

\* errors.Is(err, context.Canceled) || errors.Is(err, context.DeadlineExceeded)
IsCancelled(ret) == ret.err # "" /\ ret.cause \in ContextErrors

RECURSIVE Split(_, _)
Split(str, sep) ==
    IF \E i \in 1..Len(str) : str[i] = sep
      THEN LET i == CHOOSE i \in 1..Len(str) :
                        str[i] = sep /\ \A j \in 1..(i - 1) : str[j] # sep
           IN <<SubSeq(str, 1, i - 1)>> \o Split(SubSeq(str, i + 1, Len(str)), sep)
      ELSE <<str>>

Unhex(h1, h2) ==
    CASE <<h1, h2>> = <<"2", "5">> -> "%"
      [] <<h1, h2>> = <<"2", "6">> -> "&"
      [] <<h1, h2>> = <<"2", "B">> -> "+"
      [] <<h1, h2>> = <<"2", "F">> -> "/"
      [] <<h1, h2>> = <<"3", "A">> -> ":"
      [] <<h1, h2>> = <<"3", "D">> -> "="
      [] OTHER -> "?"

RECURSIVE QueryUnescape(_)
QueryUnescape(str) ==
    IF str = <<>> THEN <<>>
    ELSE IF Head(str) = "+" THEN <<" ">> \o QueryUnescape(Tail(str))
    ELSE IF Head(str) = "%" /\ Len(str) >= 3
      THEN <<Unhex(str[2], str[3])>> \o QueryUnescape(SubSeq(str, 4, Len(str)))
    ELSE <<Head(str)>> \o QueryUnescape(Tail(str))

ParseQuery(query) ==
    LET pieces == Split(query, "&")
        Key(piece) == QueryUnescape(Head(Split(piece, "=")))
        Value(piece) ==
            QueryUnescape(SubSeq(piece, Len(Head(Split(piece, "="))) + 2, Len(piece)))
        keys == {Key(pieces[i]) : i \in 1..Len(pieces)}
    IN [k \in keys |->
          Value(pieces[CHOOSE i \in 1..Len(pieces) : Key(pieces[i]) = k])]

\* C20: AuthURL(state) is the authorize endpoint of the environment, "?" and
\* a query in which the authorization server reads client_id and
\* redirect_uri as configured, response_type=code and the state given, a
\* scope (the scopes joined by a space) exactly when the configured scope
\* list is not empty, and no other parameter; the query holds none of the
\* characters that must be encoded.
C20_AuthURL ==
    call.op = "AuthURL" =>
        LET url == call.ret
            raw == SubSeq(url, 3, Len(url))
            query == ParseQuery(raw)
        IN /\ url[1] = (IF config.Sandbox THEN SandboxAuthURL ELSE ProductionAuthURL)
           /\ url[2] = "?"
           /\ \A i \in 1..Len(raw) : raw[i] \notin {" ", "/", ":"}
           /\ DOMAIN query =
                {<<"client_id">>, <<"redirect_uri">>, <<"response_type">>, <<"state">>}
                  \cup (IF config.Scopes # <<>> THEN {<<"scope">>} ELSE {})
           /\ query[<<"client_id">>] = config.ClientID
           /\ query[<<"redirect_uri">>] = config.RedirectURL
           /\ query[<<"response_type">>] = <<"code">>
           /\ query[<<"state">>] = call.state
           /\ config.Scopes # <<>> => query[<<"scope">>] = Join(config.Scopes, <<" ">>)

\* AuthURL("xyz") on the production client abc with the redirect URL
\* http://localhost/cb and no scopes has returned
\* ...?client_id=abc&redirect_uri=http%3A%2F%2Flocalhost%2Fcb&response_type=code&state=xyz
C20_Witness ==
    /\ config = [Sandbox |-> FALSE, ClientID |-> <<"abc">>, ClientSecret |-> <<"s">>,
                 RedirectURL |-> LocalhostCb, Scopes |-> <<>>]
    /\ call.op = "AuthURL"
    /\ call.ret = <<ProductionAuthURL, "?", "client_id", "=", "abc", "&",
                    "redirect_uri", "=", "http", "%", "3", "A", "%", "2", "F",
                    "%", "2", "F", "localhost", "%", "2", "F", "cb", "&",
                    "response_type", "=", "code", "&", "state", "=", "xyz">>

\* The authorize, token and base URL of an environment.
Endpoints(sandbox) ==
    IF sandbox
      THEN [auth |-> SandboxAuthURL, token |-> SandboxTokenURL, base |-> SandboxBaseURL]
      ELSE [auth |-> ProductionAuthURL, token |-> ProductionTokenURL,
            base |-> ProductionBaseURL]

\* C21: on a client with Sandbox set the authorization URL, the URL of the
\* token request of every grant and the base URL of the Client that
\* GetClient returns are the ones of the sandbox; on a client with Sandbox
\* unset they are the ones of production.  No operation uses an endpoint of
\* the other environment.
C21_EnvironmentSelectsEndpoints ==
    LET own == Endpoints(config.Sandbox)
        other == Endpoints(~config.Sandbox)
    IN /\ call.op = "AuthURL" =>
             Head(call.ret) = own.auth /\ Head(call.ret) # other.auth
       /\ call.op \in TokenOps => call.url = own.token /\ call.url # other.token
       /\ \A c \in Callers :
             (result[c].op = "GetClient" /\ result[c].kind = "ok") =>
                /\ result[c].client.baseURL = own.base
                /\ result[c].client.baseURL # other.base

\* On a sandbox client a grant has sent its token request to the sandbox
\* token URL, and GetClient has returned a Client for the sandbox.
C21_Witness ==
    /\ config.Sandbox
    /\ call.op = "ClientCredentials" /\ call.url = SandboxTokenURL
    /\ \E c \in Callers :
         /\ result[c].op = "GetClient" /\ result[c].kind = "ok"
         /\ result[c].client.baseURL = SandboxBaseURL

\* base64.StdEncoding.DecodeString, as the token endpoint reads the header:
\* four characters of the alphabet give three bytes, "=" at the end of the
\* last group stands for a byte that is not there; <<-1>> for a text that
\* is not base64.
SextetOf(ch) == CHOOSE i \in 0..63 : Alphabet[i + 1] = ch
RECURSIVE DecodeString(_)
DecodeString(text) ==
    IF text = <<>> THEN <<>>
    ELSE IF Len(text) < 4 \/ text[1] = "=" \/ text[2] = "="
              \/ (text[3] = "=" /\ text[4] # "=")
              \/ (text[4] = "=" /\ Len(text) > 4)
      THEN <<-1>>
    ELSE LET val == SextetOf(text[1]) * 262144 + SextetOf(text[2]) * 4096
                      + (IF text[3] = "=" THEN 0 ELSE SextetOf(text[3]) * 64)
                      + (IF text[4] = "=" THEN 0 ELSE SextetOf(text[4]))
         IN <<val \div 65536>>
              \o (IF text[3] = "=" THEN <<>> ELSE <<(val \div 256) % 256>>)
              \o (IF text[4] = "=" THEN <<>> ELSE <<val % 256>>)
              \o DecodeString(SubSeq(text, 5, Len(text)))

\* The fields of each grant.
GrantFields(op) ==
    CASE op = "ExchangeCode" -> {<<"grant_type">>, <<"code">>, <<"redirect_uri">>}
      [] op = "RefreshToken" -> {<<"grant_type">>, <<"refresh_token">>}
      [] op = "ClientCredentials" -> {<<"grant_type">>}

GrantType(op) ==
    CASE op = "ExchangeCode" -> <<"authorization_code">>
      [] op = "RefreshToken" -> <<"refresh_token">>
      [] op = "ClientCredentials" -> <<"client_credentials">>

\* C22: the request of every grant is a POST to the token URL with the
\* Content-Type application/x-www-form-urlencoded and the Authorization
\* "Basic " followed by a base64 text that decodes to the client id, ":"
\* and the client secret; the endpoint reads from its body the fields of
\* the grant and no other: grant_type, with code and redirect_uri for
\* authorization_code (the code passed in, the redirect URL configured) and
\* with refresh_token for refresh_token (the credential passed in).
C22_TokenRequestFormat ==
    (call.op \in TokenOps /\ call.resp.made) =>
        LET request == call.request
            auth == request.header["Authorization"]
            form == ParseQuery(request.body)
        IN /\ request.method = "POST"
           /\ request.url = call.url
           /\ DOMAIN request.header = {"Authorization", "Content-Type"}
           /\ request.header["Content-Type"] = <<"application/x-www-form-urlencoded">>
           /\ SubSeq(auth, 1, 2) = <<"Basic", " ">>
           /\ DecodeString(SubSeq(auth, 3, Len(auth)))
                = Bytes(config.ClientID \o <<":">> \o config.ClientSecret)
           /\ DOMAIN form = GrantFields(call.op)
           /\ form[<<"grant_type">>] = GrantType(call.op)
           /\ call.op = "ExchangeCode" =>
                 /\ form[<<"code">>] = call.data.code
                 /\ form[<<"redirect_uri">>] = config.RedirectURL
           /\ call.op = "RefreshToken" =>
                 form[<<"refresh_token">>] = call.data.refresh_token

\* The client a with the secret ~: and the redirect URL http://localhost/cb
\* has exchanged a code: Authorization is "Basic YTp+Og==" and the body is
\* code=c&grant_type=authorization_code&redirect_uri=http%3A%2F%2Flocalhost%2Fcb
C22_Witness ==
    /\ config.ClientID = <<"a">> /\ config.ClientSecret = <<"~", ":">>
    /\ call.op = "ExchangeCode" /\ call.resp.made
    /\ call.request.header["Authorization"]
         = <<"Basic", " ", "Y", "T", "p", "+", "O", "g", "=", "=">>
    /\ call.request.body =
         <<"code", "=", "c", "&", "grant_type", "=", "authorization_code", "&",
           "redirect_uri", "=", "http", "%", "3", "A", "%", "2", "F", "%", "2", "F",
           "localhost", "%", "2", "F", "cb">>

\* The Token variables the Manager and its calls in progress point to.
Held == {token} \cup {newToken[c] : c \in Callers}

\* C23: no step of the Manager changes a field of a Token variable: a Token
\* that the Manager or a call in progress points to after a step has the
\* field values it had before the step, so that a Token a caller was handed
\* keeps its access credential, refresh credential and expiry whatever is
\* refreshed later.  A refresh makes m.token point to the new Token, a
\* variable that no earlier call returned.
C23_TokensAreNeverMutated ==
    [][/\ \A old \in Held, new \in Held' :
            (old.id = new.id /\ old.id # -1) => old = new
       /\ token'.id # token.id =>
            /\ \E c \in Callers : pc[c] = "L364" /\ token' = newToken[c]
            /\ \A c \in Callers :
                  (pc[c] = "idle" /\ result[c].kind = "ok") => result[c].tok # token'.id]_vars

\* A call returned the Token the Manager was constructed with, and a later
\* call has refreshed: the Manager points to the Token of the refresh.
C23_Witness ==
    \E c, d \in Callers :
        /\ pc[c] = "idle" /\ result[c].kind = "ok" /\ result[c].tok = 0
        /\ pc[d] = "idle" /\ result[d].kind = "ok" /\ result[d].tok = 1
        /\ token.id = 1

\* C24: in OAuth mode a browser that the provider sent back with an
\* authorization code, and that the callback page has sent on to the index
\* page, is shown the dashboard as logged in.
C24_CallbackLogsIn ==
    \A b \in Browsers :
        (authMode = "oauth" /\ browser[b].page = "index" /\ browser[b].code # 0)
            => browser[b].LoggedIn

\* No GetToken call is in progress.
Quiescent == \A c \in Callers : pc[c] = "idle"

\* C25: when no GetToken call is in progress and every refresh so far found
\* a callback registered and called it, the Token passed to the callback
\* last is the Token the Manager stores.
C25_PersistedTokenIsCurrent ==
    (Quiescent /\ issued > 0 /\ unnotified = 0 /\ Len(cbLog) = issued)
        => cbLog[Len(cbLog)].tok = token.id

C27_NoTokenIsPermanent ==
    [][token = NilToken =>
         /\ token' = NilToken
         /\ issued' = 0 /\ cbLog' = <<>>
         /\ \A c \in Callers :
               (result'[c] # result[c] \/ pc'[c] # pc[c]) =>
                  /\ pc'[c] = "idle"
                  /\ result'[c].op \in {"GetToken", "GetClient"}
                  /\ result'[c].kind = "NoTokenAvailable"
                  /\ result'[c].tok = -1
                  /\ result'[c].client = NilClient]_vars

\* On a manager without a Token, after time has passed and a callback was
\* registered, a GetToken call and a GetClient call have both failed with
\* NoTokenAvailable.
C27_Witness ==
    /\ token = NilToken /\ now > 0 /\ onTokenRefresh # "nil"
    /\ \E c, d \in Callers :
         /\ result[c].op = "GetToken" /\ result[c].kind = "NoTokenAvailable"
         /\ result[d].op = "GetClient" /\ result[d].kind = "NoTokenAvailable"

\* The API answered the request of the call on record, and its answer was
\* read.
APIAnswered ==
    /\ call.pathOK /\ call.bodyOK
    /\ call.resp.made /\ call.resp.do = "" /\ call.resp.read = ""

\* C28: Request returns an *APIError exactly when the API answered with a
\* status >= 400, and the StatusCode of that error is the status of the
\* response whatever the body; a body that does not decode into an APIError
\* is the Message of the error.  Request decodes into the result only on a
\* status < 400, with a result to decode into and a body that is not empty.
C28_APIErrorCarriesStatus ==
    call.op = "Request" =>
        /\ call.ret.kind = "APIError" <=> (APIAnswered /\ call.resp.status >= 400)
        /\ call.ret.kind = "APIError" =>
             /\ call.ret.api.StatusCode = call.resp.status
             /\ ~Valid(call.resp.body) => call.ret.api.Message = call.resp.body
             /\ UnmarshalAPIError(call.resp.body).err # "" =>
                   call.ret.api.Message = call.resp.body
             /\ call.ret.decoded = ""
        /\ call.ret.decoded # "" =>
             /\ APIAnswered /\ call.resp.status < 400
             /\ call.target # "nil" /\ Len(call.resp.body) > 0
             /\ call.ret.kind = "nil"

\* Request was answered with the status 404 and an error object, and
\* returned an APIError with that status and the message of the object.
C28_Witness ==
    /\ call.op = "Request"
    /\ call.resp.status = 404
    /\ Member(call.resp.body, "message").text = <<"not", "found">>
    /\ call.ret.kind = "APIError"
    /\ call.ret.api = [StatusCode |-> 404, Type |-> <<"gone">>,
                       Message |-> <<"not", "found">>, Errors |-> 0]

\* The position in the account of the profile with that ID
ProfileIndex(id) == CHOOSE i \in 1..Len(call.world.profiles) : call.world.profiles[i].ID = id

\* Where an entry of GetStatements comes from: the position of its profile
\* and the position of its balance in the profile (0 for the entry of a
\* profile whose balances could not be listed).
EntryOrigin(e) ==
    IF e.Error.op = "Balances.List" THEN <<ProfileIndex(e.Error.id), 0>>
    ELSE <<ProfileIndex(e.BalanceID \div 10), e.BalanceID % 10>>

\* The entries of the results on record that come from that place
EntriesFrom(origin) ==
    {n \in 1..Len(call.ret.results) : EntryOrigin(call.ret.results[n]) = origin}

\* C29: GetBalances and GetStatements fail as a whole exactly when listing
\* the profiles fails.  Otherwise GetBalances returns one result per
\* profile, in the order of the profiles, with the error of listing the
\* balances of that profile in its Error and with its balances if there was
\* none; GetStatements returns, in the order of the profiles and of their
\* balances, one entry with the error for each profile whose balances could
\* not be listed, one entry for each balance that holds money, with the
\* error of fetching its statement if that failed, and no entry for a
\* balance whose amount is zero.
C29_FailuresAreIsolated ==
    LET world == call.world
        results == call.ret.results
    IN call.op \in {"GetBalances", "GetStatements"} =>
        /\ call.ret.err # NoError <=> world.listErr
        /\ world.listErr => results = <<>>
        /\ (call.op = "GetBalances" /\ ~world.listErr) =>
             /\ Len(results) = Len(world.profiles)
             /\ \A i \in 1..Len(results) :
                  LET account == world.profiles[i].account
                  IN /\ results[i].ProfileID = world.profiles[i].ID
                     /\ results[i].Error # NoError <=> account.err
                     /\ account.err => results[i].Error.id = world.profiles[i].ID
                     /\ Len(results[i].Balances) = Len(account.kinds)
                     /\ \A j \in 1..Len(account.kinds) :
                          results[i].Balances[j].Amount = 0 <=> account.kinds[j] = "zero"
        /\ (call.op = "GetStatements" /\ ~world.listErr) =>
             /\ \A i \in 1..Len(world.profiles) :
                  LET account == world.profiles[i].account
                  IN /\ Cardinality(EntriesFrom(<<i, 0>>)) = (IF account.err THEN 1 ELSE 0)
                     /\ \A n \in EntriesFrom(<<i, 0>>) :
                          results[n].Error.wrap = world.profiles[i].ID
                     /\ \A j \in 1..Len(account.kinds) :
                          /\ Cardinality(EntriesFrom(<<i, j>>))
                               = (IF account.kinds[j] = "zero" THEN 0 ELSE 1)
                          /\ \A n \in EntriesFrom(<<i, j>>) :
                               /\ results[n].Error # NoError <=> account.kinds[j] = "unreadable"
                               /\ results[n].Error = NoError => Len(results[n].Transactions) > 0
             /\ \A n \in 1..Len(results) :
                  /\ EntryOrigin(results[n])[1] \in 1..Len(world.profiles)
                  /\ EntryOrigin(results[n])[2]
                       \in 0..Len(world.profiles[EntryOrigin(results[n])[1]].account.kinds)
             /\ \A n, m \in 1..Len(results) :
                  n < m =>
                     \/ EntryOrigin(results[n])[1] < EntryOrigin(results[m])[1]
                     \/ /\ EntryOrigin(results[n])[1] = EntryOrigin(results[m])[1]
                        /\ EntryOrigin(results[n])[2] < EntryOrigin(results[m])[2]

\* GetStatements was called on an account whose first profile cannot list
\* its balances and whose second profile has a balance of zero and a
\* balance that holds money: it returned the error of the first profile and
\* then the statement of that balance.
C29_Witness ==
    /\ call.op = "GetStatements"
    /\ ~call.world.listErr
    /\ Len(call.world.profiles) = 2
    /\ call.world.profiles[1].account.err
    /\ call.world.profiles[2].account = [err |-> FALSE, kinds |-> <<"zero", "funded">>]
    /\ call.ret.err = NoError
    /\ Len(call.ret.results) = 2
    /\ call.ret.results[1].Error.wrap = call.world.profiles[1].ID
    /\ call.ret.results[2].BalanceID = BalanceID(call.world.profiles[2].ID, 2)
    /\ call.ret.results[2].Error = NoError

\* C30: on a history of one rate or more GetRateHistory returns no error
\* and one DataPoint per rate, in the order of the rates and with their
\* values, First the first rate, Last the last one, Min the smallest and Max
\* the largest of the rates; on an empty history it returns the error "no
\* historical data found" and no DataPoint.  The period asked for is of 7
\* days when days <= 0, and grouped by day when group is empty.
C30_RateHistory ==
    LET rates == call.history.rates
        ret == call.ret
    IN call.op = "GetRateHistory" =>
        /\ (call.history.err = NoError /\ Len(rates) > 0) =>
             /\ ret.Error = NoError
             /\ Len(ret.DataPoints) = Len(rates)
             /\ \A i \in 1..Len(rates) : ret.DataPoints[i].Rate = rates[i].Rate
             /\ ret.First = rates[1].Rate
             /\ ret.Last = rates[Len(rates)].Rate
             /\ \E i \in 1..Len(rates) : ret.Min = rates[i].Rate
             /\ \E i \in 1..Len(rates) : ret.Max = rates[i].Rate
             /\ \A i \in 1..Len(rates) : ret.Min <= rates[i].Rate /\ rates[i].Rate <= ret.Max
        /\ (call.history.err = NoError /\ Len(rates) = 0) =>
             /\ ret.Error = ErrorOf("no historical data found", 0)
             /\ ret.DataPoints = <<>>
        /\ ret.days = (IF call.days <= 0 THEN 7 ELSE call.days)
        /\ ret.group = (IF call.group = "" THEN "day" ELSE call.group)

\* GetRateHistory was called with no days and no group on a history whose
\* smallest rate is neither the first nor the last and whose largest rate
\* is the last: Min and Max are those, and the period is of 7 days by day.
C30_Witness ==
    /\ call.op = "GetRateHistory"
    /\ call.days = 0 /\ call.group = ""
    /\ Len(call.history.rates) = 3
    /\ call.history.rates[1].Rate = 2
    /\ call.history.rates[2].Rate = 1
    /\ call.history.rates[3].Rate = 3
    /\ call.ret.Min = 1 /\ call.ret.Max = 3
    /\ call.ret.First = 2 /\ call.ret.Last = 3
    /\ Len(call.ret.DataPoints) = 3
    /\ call.ret.days = 7 /\ call.ret.group = "day"

=============================================================================
